---- MODULE Spec2Model ----
(***************************************************************************)
(* A model of the Dubai ETA prediction pipeline: the zone grid, the        *)
(* synthetic trip generator and its chronological split, the feature       *)
(* engineer, the two regression models and the predictor that wires them.  *)
(*                                                                         *)
(* Conventions.                                                            *)
(*  - A pandas frame is [cols |-> <<names>>, rows |-> <<records>>]; a row   *)
(*    is a function from column name to value; booleans are 0/1 as in      *)
(*    Python arithmetic.                                                   *)
(*  - A Python dict is a function whose DOMAIN is its key set; {} is <<>>. *)
(*  - Real numbers are exact: a mean is a reduced fraction <<num, den>>,   *)
(*    a standard deviation is carried as its square (the sample variance)  *)
(*    <<num, den>>, NaN is <<0, 0>>.  Durations handed out by a model are  *)
(*    integers in 1/Scale minute.                                          *)
(*  - The fitted parameters of the library regressors (scikit-learn,       *)
(*    xgboost) are chosen by the environment at fit time from small sets;  *)
(*    after that a prediction is a function of parameters and features.    *)
(***************************************************************************)
EXTENDS Integers, Sequences, FiniteSets, TLC

\* ------------------------------------------------------------------ bounds

GridSize == 2        \* side of the zone grid explored (data.grid_size)
MaxBatch == 2        \* longest frame handed to fit / transform
NThreads == 2        \* threads serving predict requests at once
MaxTrips == 2        \* most trips asked of generate_dataset
MaxRows == 4         \* longest table handed to split_data
MaxTime == 2         \* latest request time in such a table
MaxTable == 180      \* longest table whose parts are counted

\* Fixed-point units per minute.
Scale == 10 * 10

\* ------------------------------------------------------------- Python values

None == [py |-> "None"]

NaN == <<0, 0>>

Abs(x) == IF x < 0 THEN -x ELSE x

Max2(a, b) == IF a >= b THEN a ELSE b

Min2(a, b) == IF a <= b THEN a ELSE b

RECURSIVE GCD(_, _)
GCD(a, b) == IF b = 0 THEN a ELSE GCD(b, a % b)

\* The fraction n/d in lowest terms (d > 0).
Rat(n, d) == LET g == GCD(Abs(n), d) IN <<n \div g, d \div g>>

\* dict.get(key, default)
DictGet(d, k, default) == IF k \in DOMAIN d THEN d[k] ELSE default

RECURSIVE SeqSum(_)
SeqSum(s) == IF s = <<>> THEN 0 ELSE Head(s) + SeqSum(Tail(s))

RECURSIVE SeqSumSq(_)
SeqSumSq(s) == IF s = <<>> THEN 0 ELSE Head(s) * Head(s) + SeqSumSq(Tail(s))

RECURSIVE SelectRows(_, _)
SelectRows(rows, keep) ==
  IF rows = <<>> THEN <<>>
  ELSE IF Head(rows) \in keep THEN <<Head(rows)>> \o SelectRows(Tail(rows), keep)
       ELSE SelectRows(Tail(rows), keep)

Range(s) == {s[i] : i \in DOMAIN s}

Column(rows, c) == [i \in DOMAIN rows |-> rows[i][c]]

\* Series.mean()
Mean(xs) == Rat(SeqSum(xs), Len(xs))

\* Series.std() (ddof = 1), carried as the variance; NaN for fewer than 2 values
Std(xs) ==
  LET n == Len(xs) IN
  IF n < 2 THEN NaN ELSE Rat(n * SeqSumSq(xs) - SeqSum(xs) * SeqSum(xs), n * (n - 1))

\* ------------------------------------------------------------------ zones

NZones == GridSize * GridSize

Zones == 0 .. (NZones - 1)

\* The zones section of the configuration, in declaration order: each entry is
\* <<zone type, cells>>.  CfgDisjoint lists every cell once; CfgOverlap lists
\* cell 1 under two types.
CfgDisjoint == << <<"business", {0}>>, <<"coastal", {1}>>, <<"airport", {2}>> >>

CfgOverlap == << <<"business", {0, 1}>>, <<"coastal", {1}>>, <<"airport", {2}>> >>

ZoneConfigs == {CfgDisjoint, CfgOverlap}

\* The zones section of a city of one zone.
CfgSingle == << <<"business", {0}>> >>

\* DubaiDataGenerator._define_zone_types: residential first, then every entry
\* in declaration order overwrites.
RECURSIVE DefineZoneTypesFrom(_, _)
DefineZoneTypesFrom(cfg, zt) ==
  IF cfg = <<>> THEN zt
  ELSE DefineZoneTypesFrom(Tail(cfg),
         [z \in DOMAIN zt |-> IF z \in Head(cfg)[2] THEN Head(cfg)[1] ELSE zt[z]])

\* The first entry listing a zone decides its type.
DefineZoneTypesFirstWins(cfg) ==
  DefineZoneTypesFrom([i \in DOMAIN cfg |-> cfg[Len(cfg) + 1 - i]],
                      [z \in Zones |-> "residential"])

DefineZoneTypes(cfg) == DefineZoneTypesFrom(cfg, [z \in Zones |-> "residential"])

\* ETAPredictor._get_zone_type: the first entry listing the zone wins.
RECURSIVE GetZoneType(_, _)
GetZoneType(cfg, zone) ==
  IF cfg = <<>> THEN "residential"
  ELSE IF zone \in Head(cfg)[2] THEN Head(cfg)[1]
       ELSE GetZoneType(Tail(cfg), zone)

\* data.grid_size where the configuration names none.
DefaultGridSize == 10

\* The distance between the rows alone.
RowDistance(grid_size, pickup, dropoff) ==
  Abs((pickup \div grid_size) - (dropoff \div grid_size))

\* calculate_dubai_distance / _calculate_dubai_distance on a grid of side
\* grid_size; // and % round towards minus infinity, as \div and % do.
CalculateDubaiDistance(grid_size, pickup, dropoff) ==
  Abs((pickup \div grid_size) - (dropoff \div grid_size))
    + Abs((pickup % grid_size) - (dropoff % grid_size))

DubaiDistance(pickup, dropoff) == CalculateDubaiDistance(GridSize, pickup, dropoff)

RushHours == {7, 8, 9} \cup {17, 18, 19, 20}

IsRushHour(hour) == IF hour \in RushHours THEN 1 ELSE 0

\* A datetime is [day, hour]: days since the start date 2024-01-01 (a Monday).
Weekday(t) == t.day % 7

IsWeekend(t) == IF Weekday(t) >= 5 THEN 1 ELSE 0

IsFridayPrayer(t) == IF Weekday(t) = 4 /\ 12 <= t.hour /\ t.hour <= 13 THEN 1 ELSE 0

\* ------------------------------------------------------------- trip records

\* Column order of the frame built by generate_dataset.
RawColumns ==
  << "trip_id", "pickup_zone", "dropoff_zone", "request_datetime",
     "actual_duration_minutes", "dubai_distance", "hour", "day_of_week",
     "is_weekend", "is_rush_hour", "is_friday_prayer", "zone_type_pickup",
     "zone_type_dropoff", "weather", "has_event", "driver_efficiency" >>

\* Column order of the single-row frame built by ETAPredictor.predict.
InputColumns ==
  << "pickup_zone", "dropoff_zone", "request_datetime", "dubai_distance", "hour",
     "day_of_week", "is_weekend", "is_rush_hour", "is_friday_prayer",
     "zone_type_pickup", "zone_type_dropoff", "weather", "has_event" >>

\* The record generate_dataset appends for one trip.
TripRecord(zone_types, id, pickup, dropoff, t, duration, weather, has_event, eff) ==
  [ trip_id |-> id,
    pickup_zone |-> pickup,
    dropoff_zone |-> dropoff,
    request_datetime |-> t,
    actual_duration_minutes |-> duration,
    dubai_distance |-> DubaiDistance(pickup, dropoff),
    hour |-> t.hour,
    day_of_week |-> Weekday(t),
    is_weekend |-> IsWeekend(t),
    is_rush_hour |-> IsRushHour(t.hour),
    is_friday_prayer |-> IsFridayPrayer(t),
    zone_type_pickup |-> zone_types[pickup],
    zone_type_dropoff |-> zone_types[dropoff],
    weather |-> weather,
    has_event |-> has_event,
    driver_efficiency |-> eff ]

\* The single row ETAPredictor.predict builds from a request.
InputRecord(cfg, pickup, dropoff, t) ==
  [ pickup_zone |-> pickup,
    dropoff_zone |-> dropoff,
    request_datetime |-> t,
    dubai_distance |-> DubaiDistance(pickup, dropoff),
    hour |-> t.hour,
    day_of_week |-> Weekday(t),
    is_weekend |-> IsWeekend(t),
    is_rush_hour |-> IsRushHour(t.hour),
    is_friday_prayer |-> IsFridayPrayer(t),
    zone_type_pickup |-> GetZoneType(cfg, pickup),
    zone_type_dropoff |-> GetZoneType(cfg, dropoff),
    weather |-> "clear",
    has_event |-> 0 ]

Frame(cols, rows) == [cols |-> cols, rows |-> rows]

NoFrame == Frame(<<>>, <<>>)

\* Trips the frames of the feature-engineer and predictor runs are built from:
\* a Monday rush-hour trip, a Friday-prayer trip on the same zone pair, and a
\* Saturday-night trip; durations in 1/Scale minute, driver efficiency in percent.
TripPool(cfg) ==
  LET zt == DefineZoneTypes(cfg) IN
  << TripRecord(zt, 0, 0, 3, [day |-> 0, hour |-> 8], 12 * Scale, "clear", 0, 100),
     TripRecord(zt, 1, 0, 3, [day |-> 4, hour |-> 12], 9 * Scale, "rain", 0, 90),
     TripRecord(zt, 2, 2, 1, [day |-> 5, hour |-> 22], 20 * Scale, "sandstorm", 1, 130) >>

RECURSIVE SeqsUpTo(_, _)
SeqsUpTo(S, n) ==
  IF n = 0 THEN {<<>>}
  ELSE LET shorter == SeqsUpTo(S, n - 1) IN
       shorter \cup {Append(s, x) : s \in {q \in shorter : Len(q) = n - 1}, x \in S}

\* A frame of generated trips is named by the pool positions of its rows:
\* the non-empty frames of at most MaxBatch distinct trips in chronological
\* order (the order split_data leaves them in).
BatchIx ==
  { ix \in SeqsUpTo(DOMAIN TripPool(CfgDisjoint), MaxBatch) :
      ix # <<>> /\ \A i \in 1 .. (Len(ix) - 1) : ix[i] < ix[i + 1] }

BatchFrame(cfg, ix) == Frame(RawColumns, [i \in DOMAIN ix |-> TripPool(cfg)[ix[i]]])

BatchTable == [cfg \in ZoneConfigs |-> [ix \in BatchIx |-> BatchFrame(cfg, ix)]]

\* ---------------------------------------------------------------- generator
\* Factors, probabilities and driver efficiency are in percent; a product
\* duration * factor is duration * percent \div 100.

\* The data, traffic and weather sections of the configuration: one with
\* factors of the usual size, one whose factors all shrink a duration to a
\* tenth, and one of a city of a single zone.
UsualConfig ==
  [ data |-> [n_zones |-> NZones],
    rush_hours |-> [morning |-> {7, 8, 9}, evening |-> {17, 18, 19, 20},
                    slowdown_factor |-> 150],
    late_night |-> [hours |-> {23, 0, 1, 2, 3, 4}, speedup_factor |-> 80],
    weather |-> [sandstorm_prob |-> 2, sandstorm_impact |-> 200,
                 rain_prob |-> 5, rain_impact |-> 130] ]

ShrinkingConfig ==
  [ data |-> [n_zones |-> NZones],
    rush_hours |-> [morning |-> {7, 8, 9}, evening |-> {17, 18, 19, 20},
                    slowdown_factor |-> 10],
    late_night |-> [hours |-> {23, 0, 1, 2, 3, 4}, speedup_factor |-> 10],
    weather |-> [sandstorm_prob |-> 2, sandstorm_impact |-> 10,
                 rain_prob |-> 5, rain_impact |-> 10] ]

SingleZoneConfig == [UsualConfig EXCEPT !.data.n_zones = 1]

GenConfigs == {UsualConfig, ShrinkingConfig}

\* DubaiDataGenerator._is_rush_hour: the two lists of the traffic section.
GeneratorIsRushHour(traffic_config, hour) ==
  hour \in traffic_config.rush_hours.morning \cup traffic_config.rush_hours.evening

\* config.get('traffic.rush_hours.<part>', default)
ConfigRushHours(traffic_config, part, default) ==
  IF "rush_hours" \in DOMAIN traffic_config /\ part \in DOMAIN traffic_config.rush_hours
  THEN traffic_config.rush_hours[part]
  ELSE default

\* The morning list alone.
PredictorIsMorningRush(traffic_config, hour) ==
  hour \in ConfigRushHours(traffic_config, "morning", {7, 8, 9})

\* ETAPredictor._is_rush_hour
PredictorIsRushHour(traffic_config, hour) ==
  hour \in ConfigRushHours(traffic_config, "morning", {7, 8, 9})
          \cup ConfigRushHours(traffic_config, "evening", {17, 18, 19, 20})

\* What the random sources can give.  random.random(), in percent:
RandomDraws == {0, 99}

\* np.random.uniform(low, high): the two ends of [low, high).
UniformDraws(low, high) == IF low < high THEN {low, high - 1} ELSE {low}

\* np.random.normal(0, 1), in 1/Scale minute.
NoiseDraws == {-4 * Scale, 0, 2 * Scale}

\* np.random.normal(1.0, 0.15), in percent.
EfficiencyDraws == {40, 100, 160}

\* start + timedelta(days=randint(0, 90), hours=random() * 24): Monday 08:00,
\* Friday 12:00, Saturday 20:00, Sunday 02:00.
TimestampDraws ==
  { [day |-> 0, hour |-> 8], [day |-> 4, hour |-> 12],
    [day |-> 5, hour |-> 20], [day |-> 6, hour |-> 2] }

Times(duration, percent) == (duration * percent) \div 100

ZoneFactor(zone_type) ==
  CASE zone_type = "business" -> 120
    [] zone_type = "airport" -> 130
    [] zone_type = "coastal" -> 110
    [] OTHER -> 100

\* calculate_base_duration, noise being the normal draw.
CalculateBaseDuration(zone_types, pickup, dropoff, noise) ==
  Max2(Scale,
       (DubaiDistance(pickup, dropoff) * 3 * Scale
          * (ZoneFactor(zone_types[pickup]) + ZoneFactor(zone_types[dropoff]))) \div 200
       + noise)

\* The uniform draws apply_temporal_factors makes: <<rush or night, prayer>>,
\* 100 standing for a draw that is not made.
TemporalDraws(cfg, hour, day_of_week) ==
  LET first ==
        IF hour \in cfg.rush_hours.morning \/ hour \in cfg.rush_hours.evening
        THEN UniformDraws(Times(cfg.rush_hours.slowdown_factor, 90),
                          Times(cfg.rush_hours.slowdown_factor, 110))
        ELSE IF hour \in cfg.late_night.hours
        THEN UniformDraws(Times(cfg.late_night.speedup_factor, 90),
                          Times(cfg.late_night.speedup_factor, 110))
        ELSE {100}
      second == IF day_of_week = 4 /\ 12 <= hour /\ hour <= 13
                THEN UniformDraws(125, 135) ELSE {100}
  IN first \X second

\* apply_temporal_factors, u being the draws.
ApplyTemporalFactors(base_duration, hour, day_of_week, u) ==
  Times(Times(Times(base_duration, u[1]), u[2]),
        IF day_of_week >= 5
        THEN (IF 10 <= hour /\ hour <= 14 THEN 120 ELSE 90)
        ELSE 100)

\* In place of a random.random() that is not called.
NotDrawn == -1

\* Both random draws made whatever the first gives.
WeatherDrawsBoth(cfg) ==
  { <<r[1], r[2], u>> :
      r \in {q \in RandomDraws \X RandomDraws : q[1] < cfg.weather.sandstorm_prob},
      u \in UniformDraws(Times(cfg.weather.sandstorm_impact, 90),
                         Times(cfg.weather.sandstorm_impact, 110)) }
  \cup
  { <<r[1], r[2], u>> :
      r \in {q \in RandomDraws \X RandomDraws :
               q[1] >= cfg.weather.sandstorm_prob /\ q[2] < cfg.weather.rain_prob},
      u \in UniformDraws(Times(cfg.weather.rain_impact, 90),
                         Times(cfg.weather.rain_impact, 110)) }
  \cup
  { <<r[1], r[2], 100>> :
      r \in {q \in RandomDraws \X RandomDraws :
               q[1] >= cfg.weather.sandstorm_prob /\ q[2] >= cfg.weather.rain_prob} }

\* The draws apply_weather_events makes: <<random, random, uniform>>; the
\* second is made only in the elif, the uniform one only where a test passed
\* (100 standing for the one not made).
WeatherDraws(cfg) ==
  { <<r1, NotDrawn, u>> : r1 \in {r \in RandomDraws : r < cfg.weather.sandstorm_prob},
                   u \in UniformDraws(Times(cfg.weather.sandstorm_impact, 90),
                                      Times(cfg.weather.sandstorm_impact, 110)) }
  \cup
  { <<r[1], r[2], u>> :
      r \in {q \in RandomDraws \X RandomDraws :
               q[1] >= cfg.weather.sandstorm_prob /\ q[2] < cfg.weather.rain_prob},
      u \in UniformDraws(Times(cfg.weather.rain_impact, 90),
                         Times(cfg.weather.rain_impact, 110)) }
  \cup
  { <<r[1], r[2], 100>> :
      r \in {q \in RandomDraws \X RandomDraws :
               q[1] >= cfg.weather.sandstorm_prob /\ q[2] >= cfg.weather.rain_prob} }

\* apply_weather_events: <<duration, weather>>.
ApplyWeatherEvents(cfg, duration, w) ==
  IF w[1] < cfg.weather.sandstorm_prob THEN <<Times(duration, w[3]), "sandstorm">>
  ELSE IF w[2] < cfg.weather.rain_prob THEN <<Times(duration, w[3]), "rain">>
  ELSE <<duration, "clear">>

EventProb(zone_types, zone) ==
  IF zone_types[zone] \in {"business", "coastal"} THEN 15 ELSE 10

\* The draws apply_special_events makes: <<random, uniform>>.
EventDraws(zone_types, zone, hour) ==
  UNION { { <<r, u>> : u \in IF r < EventProb(zone_types, zone)
                                   /\ 18 <= hour /\ hour <= 23
                                THEN UniformDraws(150, 200) ELSE {100} }
          : r \in RandomDraws }

\* apply_special_events: <<duration, has_event>>.
ApplySpecialEvents(zone_types, duration, zone, hour, e) ==
  IF e[1] < EventProb(zone_types, zone) /\ 18 <= hour /\ hour <= 23
  THEN <<Times(duration, e[2]), 1>>
  ELSE <<duration, 0>>

\* sample_zone_weighted: the weights before normalisation, doubled.
ZoneWeights(zone_types, hour) ==
  [ z \in Zones |->
      2 * (IF 7 <= hour /\ hour <= 18 /\ zone_types[z] = "business" THEN 6 ELSE 2)
        * (IF 18 <= hour /\ hour <= 23 /\ zone_types[z] = "coastal" THEN 5 ELSE 2)
        * (IF zone_types[z] = "airport" THEN 2 ELSE 1) ]

\* A choice that always gives zone 0.
ZoneDrawsFirst(n_zones, zone_types, hour) == {0}

\* np.random.choice(n_zones, p=weights): a zone of positive weight.
ZoneDraws(n_zones, zone_types, hour) ==
  {z \in 0 .. (n_zones - 1) : ZoneWeights(zone_types, hour)[z] > 0}

\* The condition of the while loop of lines 199-200.
NeverResample(pickup, dropoff) == FALSE

NeedsResample(pickup, dropoff) == dropoff = pickup

\* Line 214: the drawn efficiency clamped.
ClampEfficiency(e) == Max2(70, Min2(130, e))

\* Line 223: the duration written to the row.
Unfloored(duration) == duration

FlooredDuration(duration) == Max2(Scale, duration)

\* The generator between calls.  trips, the list generate_dataset builds, is
\* kept as its length and, in the state an append leads to, the row appended
\* (latest): rows are appended and never touched again.  The locals of an
\* iteration are all assigned before they are read, so they start each
\* iteration unassigned.  draws holds what apply_weather_events drew, from its
\* return to the next call made.
GeneratorIdle(cfg) ==
  [ cfg |-> cfg, pc |-> "idle", n_trips |-> 0, i |-> 0, trips_len |-> 0,
    latest |-> None, timestamp |-> None, pickup |-> 0, dropoff |-> 0,
    resampled |-> FALSE, duration |-> 0, weather |-> "clear", has_event |-> 0,
    draws |-> None ]

\* -------------------------------------------------------------------- split
\* A table is a sequence of rows; of a row the split reads request_datetime,
\* here a whole number of time units after the start date.

\* The data.train_ratio and data.val_ratio of the configuration, in percent:
\* the defaults, and a half and a quarter.
\* A ratio is a double: percent is the decimal written in the configuration
\* and short is how far the nearest double lies below it, in units of
\* 1 / (5 * 2^55).  0.7 is stored as 0.7 - 8 / (5 * 2^55), 0.15 as
\* 0.15 - 1 / (5 * 2^55); 0.5 and 0.25 are stored exactly.
DefaultRatios ==
  [ train_ratio |-> [percent |-> 70, short |-> 8], val_ratio |-> [percent |-> 15, short |-> 1] ]

SplitRatios ==
  { DefaultRatios,
    [ train_ratio |-> [percent |-> 50, short |-> 0], val_ratio |-> [percent |-> 25, short |-> 0] ] }

\* The table left in the order it came in.
Unsorted(df) == {df}

\* df.sort_values('request_datetime').reset_index(drop=True): the rows in
\* ascending time; the default sort is not stable, so rows of equal time may
\* come out in any order.
\* A table whose times already ascend strictly has one such order, its own.
SortValues(df) ==
  IF \A i \in 1 .. (Len(df) - 1) : df[i].request_datetime < df[i + 1].request_datetime
  THEN {df}
  ELSE { s \in { [i \in DOMAIN df |-> df[p[i]]] : p \in Permutations(DOMAIN df) } :
           \A i \in 1 .. (Len(s) - 1) : s[i].request_datetime <= s[i + 1].request_datetime }

\* df[a:b], a and b counted from 0, b clamped to the length.
Slice(df, a, b) == SubSeq(df, a + 1, Min2(b, Len(df)))

\* The least power of two that is at least k, for k >= 1.
RECURSIVE PowerOfTwoFrom(_, _)
PowerOfTwoFrom(p, k) == IF p >= k THEN p ELSE PowerOfTwoFrom(2 * p, k)

PowerOfTwoAtLeast(k) == PowerOfTwoFrom(1, k)

\* int(n * ratio): the product of two doubles, rounded to the nearest double
\* and then truncated.  The exact product lies n * short / (5 * 2^55) below
\* n * percent / 100.  Where that is not a whole number the truncation is its
\* floor.  Where it is a whole number k, the doubles just below k lie
\* P / 2^53 apart, P the least power of two that is at least k, and the
\* product rounds up to k only if it lies no more than half of that below k
\* (a tie goes to k, whose significand is even); otherwise the double is less
\* than k and truncates to k - 1.
IntOfShare(n, ratio) ==
  IF /\ n > 0
     /\ (n * ratio.percent) % 100 = 0
     /\ n * ratio.short > 10 * PowerOfTwoAtLeast((n * ratio.percent) \div 100)
  THEN (n * ratio.percent) \div 100 - 1
  ELSE (n * ratio.percent) \div 100

\* Lines 252-260: the three parts of the sorted table.
CutParts(sorted, ratios) ==
  [ train |-> Slice(sorted, 0, IntOfShare(Len(sorted), ratios.train_ratio)),
    val |-> Slice(sorted, IntOfShare(Len(sorted), ratios.train_ratio),
                  IntOfShare(Len(sorted), ratios.train_ratio)
                    + IntOfShare(Len(sorted), ratios.val_ratio)),
    test |-> Slice(sorted, IntOfShare(Len(sorted), ratios.train_ratio)
                             + IntOfShare(Len(sorted), ratios.val_ratio),
                   Len(sorted)) ]

\* DubaiDataGenerator.split_data: the results it can return.
SplitData(df, ratios) == { CutParts(sorted, ratios) : sorted \in SortValues(df) }

\* ------------------------------------------------------- feature engineering

\* FeatureEngineer.__init__
FeatureEngineerInit ==
  [ feature_stats |-> <<>>,
    zone_pair_stats |-> <<>>,
    training_columns |-> None,
    fitted |-> FALSE ]

Durations(rows) == Column(rows, "actual_duration_minutes")

\* The group key of a row for each of the four groupby calls of fit.
GroupKey(by, r) ==
  CASE by = "zone_pair" -> <<r.pickup_zone, r.dropoff_zone>>
    [] by = "hour" -> r.hour
    [] by = "day_of_week" -> r.day_of_week
    [] by = "zone_combo" -> <<r.zone_type_pickup, r.zone_type_dropoff>>

\* The aggregate of one group's durations.
Aggregate(stat, xs) ==
  CASE stat = "mean" -> Mean(xs)
    [] stat = "std" -> Std(xs)
    [] stat = "count" -> Len(xs)

\* df.groupby(by)[label].agg(stat).to_dict() for one statistic: a dict from
\* the keys present in df to the statistic of that group's durations.
GroupStat(rows, by, stat) ==
  [ k \in {GroupKey(by, rows[i]) : i \in DOMAIN rows} |->
      Aggregate(stat, Durations(SelectRows(rows, {r \in Range(rows) : GroupKey(by, r) = k}))) ]

\* A string key of a dict that is also probed with tuple keys: strings and
\* tuples are both hashable in Python and never equal.
StrKey(s) == <<s>>

\* FeatureEngineer.fit.  DataFrame.to_dict() of the three-column aggregate is
\* keyed by statistic name first and by zone pair second.
Fit(fe, df) ==
  [ fe EXCEPT
      !.zone_pair_stats =
        (StrKey("mean") :> GroupStat(df.rows, "zone_pair", "mean"))
          @@ (StrKey("std") :> GroupStat(df.rows, "zone_pair", "std"))
          @@ (StrKey("count") :> GroupStat(df.rows, "zone_pair", "count")),
      !.feature_stats =
        [ hour_mean       |-> GroupStat(df.rows, "hour", "mean"),
          dow_mean        |-> GroupStat(df.rows, "day_of_week", "mean"),
          zone_combo_mean |-> GroupStat(df.rows, "zone_combo", "mean"),
          global_mean     |-> Mean(Durations(df.rows)),
          global_std      |-> Std(Durations(df.rows)) ],
      !.fitted = TRUE ]

\* between with the upper end left out.
BetweenBelow(x, lo, hi) == IF lo <= x /\ x < hi THEN 1 ELSE 0

\* Series.between(lo, hi).astype(int), both ends inclusive
Between(x, lo, hi) == IF lo <= x /\ x <= hi THEN 1 ELSE 0

\* int | int on 0/1 values
BitOr(a, b) == IF a = 1 \/ b = 1 THEN 1 ELSE 0

\* np.sin / np.cos of 2*pi*k/period, kept symbolic
Cyclic(fn, k, period) == <<fn, k, period>>

\* The columns transform assigns before the one-hot step, in assignment order;
\* distance_friday_prayer only when the frame has an is_friday_prayer column.
EngineeredColumns(cols) ==
  << "hour_sin", "hour_cos", "dow_sin", "dow_cos", "zone_pair_mean",
     "zone_pair_std", "zone_pair_count", "hour_mean", "dow_mean",
     "zone_combo_mean", "distance_rush", "distance_weekend", "distance_squared" >>
  \o (IF "is_friday_prayer" \in Range(cols) THEN <<"distance_friday_prayer">> ELSE <<>>)
  \o << "same_zone_type", "is_morning", "is_afternoon", "is_evening", "is_night" >>

\* The values transform assigns to one row (lines 59-119).
EngineeredValues(fe, x) ==
  [ hour_sin |-> Cyclic("sin", x.hour, 24),
    hour_cos |-> Cyclic("cos", x.hour, 24),
    dow_sin |-> Cyclic("sin", x.day_of_week, 7),
    dow_cos |-> Cyclic("cos", x.day_of_week, 7),
    zone_pair_mean |->
      DictGet(DictGet(fe.zone_pair_stats, GroupKey("zone_pair", x), <<>>), StrKey("mean"),
              fe.feature_stats.global_mean),
    zone_pair_std |->
      DictGet(DictGet(fe.zone_pair_stats, GroupKey("zone_pair", x), <<>>), StrKey("std"),
              fe.feature_stats.global_std),
    zone_pair_count |->
      DictGet(DictGet(fe.zone_pair_stats, GroupKey("zone_pair", x), <<>>), StrKey("count"), 0),
    hour_mean |-> DictGet(fe.feature_stats.hour_mean, x.hour, fe.feature_stats.global_mean),
    dow_mean |->
      DictGet(fe.feature_stats.dow_mean, x.day_of_week, fe.feature_stats.global_mean),
    zone_combo_mean |->
      DictGet(fe.feature_stats.zone_combo_mean, GroupKey("zone_combo", x),
              fe.feature_stats.global_mean),
    distance_rush |-> x.dubai_distance * x.is_rush_hour,
    distance_weekend |-> x.dubai_distance * x.is_weekend,
    distance_squared |-> x.dubai_distance * x.dubai_distance,
    distance_friday_prayer |->
      IF "is_friday_prayer" \in DOMAIN x THEN x.dubai_distance * x.is_friday_prayer ELSE 0,
    same_zone_type |-> IF x.zone_type_pickup = x.zone_type_dropoff THEN 1 ELSE 0,
    is_morning |-> Between(x.hour, 6, 10),
    is_afternoon |-> Between(x.hour, 12, 16),
    is_evening |-> Between(x.hour, 17, 21),
    is_night |-> BitOr(Between(x.hour, 22, 23), Between(x.hour, 0, 5)) ]

CategoricalCols == <<"zone_type_pickup", "zone_type_dropoff", "weather">>

\* The levels of a categorical column in the sorted order get_dummies uses.
SortedLevels(col) ==
  IF col = "weather" THEN <<"clear", "rain", "sandstorm">>
  ELSE <<"airport", "business", "coastal", "residential">>

\* prefix + prefix_sep + level
DummyName(col, level) ==
  CASE col = "zone_type_pickup" /\ level = "airport" -> "zone_type_pickup_airport"
    [] col = "zone_type_pickup" /\ level = "business" -> "zone_type_pickup_business"
    [] col = "zone_type_pickup" /\ level = "coastal" -> "zone_type_pickup_coastal"
    [] col = "zone_type_pickup" /\ level = "residential" -> "zone_type_pickup_residential"
    [] col = "zone_type_dropoff" /\ level = "airport" -> "zone_type_dropoff_airport"
    [] col = "zone_type_dropoff" /\ level = "business" -> "zone_type_dropoff_business"
    [] col = "zone_type_dropoff" /\ level = "coastal" -> "zone_type_dropoff_coastal"
    [] col = "zone_type_dropoff" /\ level = "residential" -> "zone_type_dropoff_residential"
    [] col = "weather" /\ level = "clear" -> "weather_clear"
    [] col = "weather" /\ level = "rain" -> "weather_rain"
    [] col = "weather" /\ level = "sandstorm" -> "weather_sandstorm"

RECURSIVE SelectSeq2(_, _)
SelectSeq2(s, keep) ==
  IF s = <<>> THEN <<>>
  ELSE IF Head(s) \in keep THEN <<Head(s)>> \o SelectSeq2(Tail(s), keep)
       ELSE SelectSeq2(Tail(s), keep)

\* The levels of col present in the frame, sorted.
LevelsPresent(rows, col) == SelectSeq2(SortedLevels(col), Range(Column(rows, col)))

DummyColumns(rows, col) ==
  LET lv == LevelsPresent(rows, col) IN [i \in DOMAIN lv |-> DummyName(col, lv[i])]

\* pd.get_dummies(features, columns=categorical_cols, prefix_sep='_'): the
\* encoded columns are removed, one indicator column per level present is
\* appended, column by column.
GetDummies(f) ==
  LET kept == SelectSeq2(f.cols, Range(f.cols) \ Range(CategoricalCols))
      keptSet == Range(kept)
      dummies(col) == DummyColumns(f.rows, col)
      cols == kept \o dummies("zone_type_pickup") \o dummies("zone_type_dropoff")
                   \o dummies("weather")
      colSet == Range(cols)
  IN Frame(cols,
           [i \in DOMAIN f.rows |->
              LET r == f.rows[i]
                  hot == {DummyName(col, r[col]) : col \in Range(CategoricalCols)}
              IN [c \in colSet |-> IF c \in keptSet THEN r[c]
                                   ELSE IF c \in hot THEN 1 ELSE 0]])

\* AlignColumns with the final selection left out: missing columns are added,
\* extra ones stay.
AlignColumnsKeepExtras(fe, f) ==
  IF fe.training_columns = None THEN f
  ELSE LET tc == fe.training_columns
           missing == SelectSeq2(tc, Range(tc) \ Range(f.cols))
           cols == f.cols \o missing
           colSet == Range(cols)
           have == Range(f.cols)
       IN Frame(cols, [i \in DOMAIN f.rows |->
                         [c \in colSet |-> IF c \in have THEN f.rows[i][c] ELSE 0]])

\* Lines 126-132: with a stored column list, every stored column the frame
\* lacks is added as 0, then the frame is cut down and reordered to the list.
AlignColumns(fe, f) ==
  IF fe.training_columns = None THEN f
  ELSE LET tc == fe.training_columns
           tcSet == Range(tc)
           have == Range(f.cols)
       IN Frame(tc, [i \in DOMAIN f.rows |->
                       [c \in tcSet |-> IF c \in have THEN f.rows[i][c] ELSE 0]])

\* FeatureEngineer.transform: [ok, err, frame].
Transform(fe, df) ==
  IF ~fe.fitted THEN [ok |-> FALSE, err |-> "ValueError", frame |-> NoFrame]
  ELSE
    LET added == EngineeredColumns(df.cols)
        addedSet == Range(added)
        cols == df.cols \o SelectSeq2(added, addedSet \ Range(df.cols))
        colSet == Range(cols)
        features ==
          Frame(cols,
                [i \in DOMAIN df.rows |->
                   LET x == df.rows[i]
                       ev == EngineeredValues(fe, x)
                   IN [c \in colSet |-> IF c \in addedSet THEN ev[c] ELSE x[c]]])
    IN [ok |-> TRUE, err |-> "", frame |-> AlignColumns(fe, GetDummies(features))]

\* FeatureEngineer.fit_transform: [fe, ok, err, frame]
FitTransform(fe, df) ==
  LET fitted == Fit(fe, df)
      t == Transform(fitted, df)
  IN [ fe |-> [fitted EXCEPT !.training_columns = t.frame.cols],
       ok |-> TRUE, err |-> "", frame |-> t.frame ]

\* FeatureEngineer.get_feature_columns
ExcludeCols ==
  {"trip_id", "request_datetime", "actual_duration_minutes", "driver_efficiency",
   "has_event"}

\* Every column of the frame.
AllColumns(f) == f.cols

GetFeatureColumns(f) == SelectSeq2(f.cols, Range(f.cols) \ ExcludeCols)

\* df[cols]: KeyError when a requested column is missing.
HasColumns(f, cols) == Range(cols) \subseteq Range(f.cols)

SelectColumns(f, cols) ==
  LET colSet == Range(cols) IN
  Frame(cols, [i \in DOMAIN f.rows |-> [c \in colSet |-> f.rows[i][c]]])

\* ------------------------------------------------------------------- models

\* What a library fit computes is a fixed function of its training data.  The
\* function is the environment's: lib selects it, the data select the entry.
LinearParams ==
  << [intercept |-> 50, slope |-> 0],
     [intercept |-> 734, slope |-> 313],
     [intercept |-> -200, slope |-> 100] >>

BoosterParams ==
  << [base |-> 1234, per_zone |-> 311, rush |-> 405],
     [base |-> 30, per_zone |-> 0, rush |-> 10],
     [base |-> -150, per_zone |-> 75, rush |-> 0] >>

LibChoices == 0 .. (Len(LinearParams) - 1)

DataKey(y) == SeqSum(y) \div Scale + Len(y)

\* LinearRegression().fit(X_scaled, y)
LinearRegressionFit(lib, X, y) ==
  [ coef |-> LinearParams[((lib + DataKey(y)) % Len(LinearParams)) + 1],
    n_features_in |-> Len(X.cols) ]

\* XGBRegressor(**params).fit(X_train, y_train[, eval_set]): the evaluation set
\* is scored while fitting and the scores are kept on the regressor; it does
\* not change the trees (no early stopping is configured).
XGBFit(lib, X, y, eval_set) ==
  [ trees |-> BoosterParams[((lib + DataKey(y)) % Len(BoosterParams)) + 1],
    feature_names_in |-> X.cols,
    evals_result |-> IF eval_set = None THEN None
                     ELSE [validation_0 |-> DataKey(eval_set[2])] ]

\* StandardScaler().fit: per-column mean and (population) variance
PopVar(xs) ==
  LET n == Len(xs) IN Rat(n * SeqSumSq(xs) - SeqSum(xs) * SeqSum(xs), n * n)

StandardScalerFit(X) ==
  [ mean |-> [c \in Range(X.cols) |-> Mean(Column(X.rows, c))],
    var  |-> [c \in Range(X.cols) |-> PopVar(Column(X.rows, c))] ]

\* LinearRegression.predict after StandardScaler.transform, per row
LinearPredict(model, X) ==
  [i \in DOMAIN X.rows |-> model.coef.intercept + model.coef.slope * X.rows[i].dubai_distance]

\* XGBRegressor.predict, per row
XGBPredict(model, X) ==
  [i \in DOMAIN X.rows |->
     model.trees.base + model.trees.per_zone * X.rows[i].dubai_distance
       + model.trees.rush * X.rows[i].is_rush_hour]

BaselineColumns == <<"dubai_distance", "hour", "day_of_week", "is_rush_hour">>

\* LinearRegression() and StandardScaler() as constructed, not fitted.
UnfittedLinearRegression == [coef |-> None, n_features_in |-> None]

UnfittedScaler == [mean |-> None, var |-> None]

\* BaselineModel.__init__
BaselineModelInit ==
  [ model |-> UnfittedLinearRegression, scaler |-> UnfittedScaler,
    feature_columns |-> BaselineColumns, fitted |-> FALSE ]

Raised(e) == [ok |-> FALSE, err |-> e, value |-> None]

Returned(v) == [ok |-> TRUE, err |-> "", value |-> v]

\* BaselineModel.fit: [m, ok, err].  libFails: LinearRegression.fit raises.
BaselineFit(bm, lib, X, y, libFails) ==
  IF ~HasColumns(X, bm.feature_columns)
  THEN [m |-> bm, ok |-> FALSE, err |-> "KeyError"]
  ELSE LET X_baseline == SelectColumns(X, bm.feature_columns)
           scaled == [bm EXCEPT !.scaler = StandardScalerFit(X_baseline)]
       IN IF libFails
          THEN [m |-> scaled, ok |-> FALSE, err |-> "LibraryError"]
          ELSE [ m |-> [scaled EXCEPT !.model = LinearRegressionFit(lib, X_baseline, y),
                                      !.fitted = TRUE],
                 ok |-> TRUE, err |-> "" ]

\* BaselineModel.predict.  An estimator that was never fitted raises the
\* library's own NotFittedError from transform / predict.
BaselinePredict(bm, X) ==
  IF ~bm.fitted THEN Raised("ValueError")
  ELSE IF ~HasColumns(X, bm.feature_columns) THEN Raised("KeyError")
  ELSE IF bm.scaler = UnfittedScaler \/ bm.model = UnfittedLinearRegression
       THEN Raised("sklearn.NotFittedError")
  ELSE Returned(LinearPredict(bm.model, SelectColumns(X, bm.feature_columns)))

\* The XGBoost parameters of AdvancedModel._init_params (defaults).
XGBParams ==
  [ objective |-> "reg:squarederror", n_estimators |-> 200, max_depth |-> 8,
    learning_rate |-> <<1, 10>>, subsample |-> <<8, 10>>,
    colsample_bytree |-> <<8, 10>>, random_state |-> 42, n_jobs |-> -1 ]

\* AdvancedModel.__init__
AdvancedModelInit ==
  [ model |-> None, feature_columns |-> None, fitted |-> FALSE, params |-> XGBParams ]

\* An XGBRegressor constructed and not fitted.
UnfittedXGB == [trees |-> None, feature_names_in |-> None, evals_result |-> None]

\* AdvancedModel.fit with the fitted flag set before the library call.
AdvancedFitFlagFirst(am, lib, X_train, y_train, X_val, y_val, libFails) ==
  LET started == [am EXCEPT !.feature_columns = X_train.cols, !.model = UnfittedXGB,
                            !.fitted = TRUE]
      eval_set == IF X_val # None THEN <<X_val, y_val>> ELSE None
  IN IF libFails
     THEN [m |-> started, ok |-> FALSE, err |-> "LibraryError"]
     ELSE [ m |-> [started EXCEPT !.model = XGBFit(lib, X_train, y_train, eval_set)],
            ok |-> TRUE, err |-> "" ]

\* AdvancedModel.fit: [m, ok, err].  libFails: XGBRegressor.fit raises.
\* (X_val and y_val are both given or both None at every call site, so the
\* test "X_val is not None and y_val is not None" is decided by X_val.)
AdvancedFit(am, lib, X_train, y_train, X_val, y_val, libFails) ==
  LET started == [am EXCEPT !.feature_columns = X_train.cols, !.model = UnfittedXGB]
      eval_set == IF X_val # None THEN <<X_val, y_val>> ELSE None
  IN IF libFails
     THEN [m |-> started, ok |-> FALSE, err |-> "LibraryError"]
     ELSE [ m |-> [started EXCEPT !.model = XGBFit(lib, X_train, y_train, eval_set),
                                  !.fitted = TRUE],
            ok |-> TRUE, err |-> "" ]

\* AdvancedModel.predict handing the frame to the regressor as it came:
\* XGBRegressor.predict raises on a frame whose column names are not, in
\* order, those it was fitted on.
AdvancedPredictAsGiven(am, X) ==
  IF ~am.fitted THEN Raised("ValueError")
  ELSE IF am.model = UnfittedXGB THEN Raised("xgboost.NotFittedError")
  ELSE IF X.cols # am.model.feature_names_in THEN Raised("xgboost.ValueError")
  ELSE Returned(XGBPredict(am.model, X))

\* AdvancedModel.predict.  XGBRegressor.predict on a regressor that was
\* constructed and never fitted raises the library's own NotFittedError.
AdvancedPredict(am, X) ==
  IF ~am.fitted THEN Raised("ValueError")
  ELSE IF ~HasColumns(X, am.feature_columns) THEN Raised("KeyError")
  ELSE IF am.model = UnfittedXGB THEN Raised("xgboost.NotFittedError")
  ELSE Returned(XGBPredict(am.model, SelectColumns(X, am.feature_columns)))

\* z * std_estimate with std_estimate = prediction * 0.15 and z = 1.96 (the
\* 0.95 level), in 1/(1000 * Scale) minute.
ZStd(prediction) == 294 * prediction

\* AdvancedModel.predict_with_confidence: per row <<prediction, <<lower, upper>>>>,
\* the bounds in 1/(1000 * Scale) minute.
WithConfidence(r) ==
  IF ~r.ok THEN r
  ELSE Returned([i \in DOMAIN r.value |->
                   << r.value[i],
                      << 1000 * r.value[i] - ZStd(r.value[i]),
                         1000 * r.value[i] + ZStd(r.value[i]) >> >>])

PredictWithConfidence(am, X) == WithConfidence(AdvancedPredict(am, X))

\* Sum of |y - prediction| over the rows: the numerator of the MAE.
RECURSIVE AbsErrSum(_, _)
AbsErrSum(y, predictions) ==
  IF y = <<>> THEN 0
  ELSE Abs(Head(y) - Head(predictions)) + AbsErrSum(Tail(y), Tail(predictions))

\* Sum of |y - prediction| / y * 100 over the rows, in 1/100 percent, for
\* labels that are not zero.
RECURSIVE PctErrSum(_, _)
PctErrSum(y, predictions) ==
  IF y = <<>> THEN 0
  ELSE (Abs(Head(y) - Head(predictions)) * 100 * 100) \div Head(y)
         + PctErrSum(Tail(y), Tail(predictions))

\* np.mean(np.abs((y - predictions) / y)) * 100: a float division, in which a
\* zero label gives nan for an error of zero and inf for any other error; the
\* mean of terms with a nan is nan and of terms with an inf, and no nan, inf.
Mape(y, predictions) ==
  IF \E i \in DOMAIN y : y[i] = 0 /\ predictions[i] = 0
  THEN [kind |-> "nan", hundredths |-> 0]
  ELSE IF \E i \in DOMAIN y : y[i] = 0
  THEN [kind |-> "inf", hundredths |-> 0]
  ELSE [kind |-> "finite", hundredths |-> PctErrSum(y, predictions) \div Len(y)]

\* The metrics both evaluate methods compute from the predictions.
Metrics(y, predictions) ==
  [mae |-> Rat(AbsErrSum(y, predictions), Len(y)), mape |-> Mape(y, predictions)]

\* BaselineModel.evaluate
MetricsOf(y, r) == IF ~r.ok THEN r ELSE Returned(Metrics(y, r.value))

\* BaselineModel.evaluate
BaselineEvaluate(bm, X, y) == MetricsOf(y, BaselinePredict(bm, X))

\* AdvancedModel.evaluate
AdvancedEvaluate(am, X, y) == MetricsOf(y, AdvancedPredict(am, X))

\* ---------------------------------------------------------------- predictor

\* ETAPredictor.__init__
ETAPredictorInit ==
  [ feature_engineer |-> FeatureEngineerInit,
    baseline_model |-> BaselineModelInit,
    advanced_model |-> AdvancedModelInit,
    metadata |-> <<>>,
    fitted |-> FALSE ]

\* Lines 51-64: the advanced model's fit has returned a; metadata and flag.
TrainFinish(p, a, X_train_features, y_train, val_df, now) ==
  IF ~a.ok
  THEN [p |-> [p EXCEPT !.advanced_model = a.m], ok |-> FALSE, err |-> a.err]
  ELSE [ p |-> [p EXCEPT
                  !.advanced_model = a.m,
                  !.metadata =
                    [ train_size |-> Len(y_train),
                      val_size |-> IF val_df = None THEN 0 ELSE Len(val_df.rows),
                      features_count |-> Len(X_train_features.cols),
                      training_date |-> now ],
                  !.fitted = TRUE],
         ok |-> TRUE, err |-> "" ]

\* The validation frame put through fit_transform instead of transform.
TrainAdvancedRefits(p, lib, b, X_train_features, y_train, val_df, failAt, now) ==
  IF ~b.ok
  THEN [p |-> [p EXCEPT !.baseline_model = b.m], ok |-> FALSE, err |-> b.err]
  ELSE TrainFinish(
         [p EXCEPT !.baseline_model = b.m,
                   !.feature_engineer =
                     IF val_df = None THEN @ ELSE FitTransform(@, val_df).fe],
         AdvancedFit(p.advanced_model, lib, X_train_features, y_train,
                     IF val_df = None THEN None
                     ELSE SelectColumns(Transform(p.feature_engineer, val_df).frame,
                                        X_train_features.cols),
                     IF val_df = None THEN None ELSE Durations(val_df.rows),
                     failAt = "advanced"),
         X_train_features, y_train, val_df, now)

\* Lines 43-52: the baseline model's fit has returned b; the validation frame
\* is transformed and the advanced model fitted.
TrainAdvanced(p, lib, b, X_train_features, y_train, val_df, failAt, now) ==
  IF ~b.ok
  THEN [p |-> [p EXCEPT !.baseline_model = b.m], ok |-> FALSE, err |-> b.err]
  ELSE TrainFinish(
         [p EXCEPT !.baseline_model = b.m],
         AdvancedFit(p.advanced_model, lib, X_train_features, y_train,
                     IF val_df = None THEN None
                     ELSE SelectColumns(Transform(p.feature_engineer, val_df).frame,
                                        X_train_features.cols),
                     IF val_df = None THEN None ELSE Durations(val_df.rows),
                     failAt = "advanced"),
         X_train_features, y_train, val_df, now)

\* Lines 33-41: fit_transform has returned ft; feature selection and the
\* baseline model's fit.
TrainOnFeatures(p, lib, ft, X_train_features, y_train, val_df, failAt, now) ==
  TrainAdvanced([p EXCEPT !.feature_engineer = ft.fe], lib,
                BaselineFit(p.baseline_model, lib, X_train_features, y_train,
                            failAt = "baseline"),
                X_train_features, y_train, val_df, failAt, now)

TrainTransformed(p, lib, ft, train_df, val_df, failAt, now) ==
  TrainOnFeatures(p, lib, ft, SelectColumns(ft.frame, GetFeatureColumns(ft.frame)),
                  Durations(train_df.rows), val_df, failAt, now)

\* train with the fitted flag raised before the models are fitted.
TrainFlagFirst(p, lib, train_df, val_df, failAt, now) ==
  TrainTransformed([p EXCEPT !.fitted = TRUE], lib,
                   FitTransform(p.feature_engineer, train_df),
                   train_df, val_df, failAt, now)

\* ETAPredictor.train: [p, ok, err].  val_df is a frame or None; failAt names
\* the library fit that raises ("baseline", "advanced") or is "none"; now is
\* the clock reading stored as training_date.  An exception leaves every
\* assignment made before it in place.
Train(p, lib, train_df, val_df, failAt, now) ==
  TrainTransformed(p, lib, FitTransform(p.feature_engineer, train_df),
                   train_df, val_df, failAt, now)

\* One tenth of a minute in the unit the factors are computed in,
\* 1/(20 * Scale) minute, in which prediction * 0.2 and prediction * 0.15 are
\* whole numbers.
Fine == 20

Tenth == 2 * Scale

\* round(x, 1): x in 1/(20 * Scale) minute, the result in tenths of a minute;
\* a value half-way between two tenths goes to the even one.
Round1(x) ==
  LET q == x \div Tenth
      r == x % Tenth
  IN IF 2 * r < Tenth THEN q
     ELSE IF 2 * r > Tenth THEN q + 1
     ELSE IF q % 2 = 0 THEN q ELSE q + 1

\* _decompose_factors with zone_complexity taken as prediction - base_time.
DecomposeFactorsNoTraffic(trip_data, prediction) ==
  LET base_time == trip_data.dubai_distance * 3 * Scale * Fine
      traffic_adjustment ==
        IF trip_data.is_rush_hour = 1 THEN prediction * 4
        ELSE IF DictGet(trip_data, "is_friday_prayer", 0) = 1 THEN prediction * 3
        ELSE 0
  IN [ base_time |-> Round1(base_time),
       traffic_adjustment |-> Round1(traffic_adjustment),
       weather_impact |-> 0,
       zone_complexity |-> Round1(prediction * Fine - base_time) ]

\* _decompose_factors asking for the Friday prayer before the rush hour.
DecomposeFactorsPrayerFirst(trip_data, prediction) ==
  LET base_time == trip_data.dubai_distance * 3 * Scale * Fine
      traffic_adjustment ==
        IF DictGet(trip_data, "is_friday_prayer", 0) = 1 THEN prediction * 3
        ELSE IF trip_data.is_rush_hour = 1 THEN prediction * 4
        ELSE 0
      zone_complexity == prediction * Fine - base_time - traffic_adjustment
  IN [ base_time |-> Round1(base_time),
       traffic_adjustment |-> Round1(traffic_adjustment),
       weather_impact |-> 0,
       zone_complexity |-> Round1(zone_complexity) ]

\* ETAPredictor._decompose_factors: the four factors in tenths of a minute.
DecomposeFactors(trip_data, prediction) ==
  LET base_time == trip_data.dubai_distance * 3 * Scale * Fine
      traffic_adjustment ==
        IF trip_data.is_rush_hour = 1 THEN prediction * 4
        ELSE IF DictGet(trip_data, "is_friday_prayer", 0) = 1 THEN prediction * 3
        ELSE 0
      zone_complexity == prediction * Fine - base_time - traffic_adjustment
  IN [ base_time |-> Round1(base_time),
       traffic_adjustment |-> Round1(traffic_adjustment),
       weather_impact |-> 0,
       zone_complexity |-> Round1(zone_complexity) ]

\* ETAPredictor._simple_confidence_interval at the 0.95 level: <<lower, upper>>
\* in 1/(1000 * Scale) minute.
SimpleConfidenceInterval(prediction) ==
  << Max2(1000 * Scale, 1000 * prediction - ZStd(prediction)),
     1000 * prediction + ZStd(prediction) >>

ModelTypes == {"baseline", "advanced"}

\* The request of a predict call.
Request(pickup, dropoff, t, model_type) ==
  [pickup_zone |-> pickup, dropoff_zone |-> dropoff, request_time |-> t,
   model_type |-> model_type]

\* Lines 72-87: the single-row input frame.
PredictInput(cfg, rq) ==
  Frame(InputColumns,
        <<InputRecord(cfg, rq.pickup_zone, rq.dropoff_zone, rq.request_time)>>)

\* Line 78: request_time.hour of a request_time that is None.
NoRequestTime == [ok |-> FALSE, err |-> "AttributeError", value |-> None, calls |-> <<>>]

\* Lines 89-92: the feature columns of what transform returned.
SelectFeatures(t) ==
  IF ~t.ok THEN Raised(t.err)
  ELSE Returned(SelectColumns(t.frame, GetFeatureColumns(t.frame)))

PredictFeatures(p, input_data) == SelectFeatures(Transform(p.feature_engineer, input_data))

\* Lines 95-96: the baseline prediction of the row and its interval.
BaselineWithInterval(r) ==
  IF ~r.ok THEN r ELSE Returned(<<r.value[1], SimpleConfidenceInterval(r.value[1])>>)

\* Lines 98-101: the advanced prediction of the row and its interval.
AdvancedWithInterval(r) == IF ~r.ok THEN r ELSE Returned(r.value[1])

\* Lines 94-101: <<prediction, confidence_interval>> of the requested model.
PredictModel(p, X_features, model_type) ==
  IF model_type = "baseline"
  THEN BaselineWithInterval(BaselinePredict(p.baseline_model, X_features))
  ELSE AdvancedWithInterval(PredictWithConfidence(p.advanced_model, X_features))

ModelCall(model_type) ==
  IF model_type = "baseline" THEN "baseline_model.predict"
  ELSE "advanced_model.predict_with_confidence"

\* Lines 103-115: the response, m being what the model call gave.
PredictRespond(input_data, m, model_type, now) ==
  IF ~m.ok
  THEN [ok |-> FALSE, err |-> m.err, value |-> None,
        calls |-> <<"feature_engineer.transform", ModelCall(model_type)>>]
  ELSE [ok |-> TRUE, err |-> "",
        value |-> [ estimated_duration_minutes |-> m.value[1],
                    confidence_interval |-> m.value[2],
                    factors |-> DecomposeFactors(input_data.rows[1], m.value[1]),
                    metadata |-> [model_type |-> model_type, model_version |-> "1.0",
                                  prediction_timestamp |-> now] ],
        calls |-> <<"feature_engineer.transform", ModelCall(model_type)>>]

\* Lines 89-101, f being what transform and feature selection gave.
PredictOnFeatures(p, input_data, f, model_type, now) ==
  IF ~f.ok
  THEN [ok |-> FALSE, err |-> f.err, value |-> None,
        calls |-> <<"feature_engineer.transform">>]
  ELSE PredictRespond(input_data, PredictModel(p, f.value, model_type), model_type, now)

PredictOnInput(p, input_data, model_type, now) ==
  PredictOnFeatures(p, input_data, PredictFeatures(p, input_data), model_type, now)

\* ETAPredictor.predict: [ok, err, value, calls], calls being the component
\* operations entered, in order.
Predict(p, cfg, rq, now) ==
  IF ~p.fitted
  THEN [ok |-> FALSE, err |-> "ValueError", value |-> None, calls |-> <<>>]
  ELSE IF rq.request_time = None THEN NoRequestTime
  ELSE PredictOnInput(p, PredictInput(cfg, rq), rq.model_type, now)

\* Lines 125-129: the two evaluations of the selected features.
EvaluateBoth(b, a) ==
  IF ~b.ok THEN b
  ELSE IF ~a.ok THEN a
  ELSE Returned([baseline |-> b.value, advanced |-> a.value])

EvaluateFeatures(p, f, y_test) ==
  IF ~f.ok THEN f
  ELSE EvaluateBoth(BaselineEvaluate(p.baseline_model, f.value, y_test),
                    AdvancedEvaluate(p.advanced_model, f.value, y_test))

\* ETAPredictor.evaluate_all
EvaluateAll(p, test_df) ==
  EvaluateFeatures(p, SelectFeatures(Transform(p.feature_engineer, test_df)),
                   Durations(test_df.rows))

\* The four files save writes, in the order it writes them.
ArtifactNames ==
  <<"feature_engineer.pkl", "baseline_model.pkl", "advanced_model.pkl", "metadata.pkl">>

\* joblib.dump / joblib.load: the object as an opaque blob, and back.
JoblibDump(obj) == [blob |-> obj]

JoblibLoad(file) == file.blob

\* ETAPredictor.save: the directory after the call (a function from file name
\* to content; files of other names are left as they were).
Save(p, dir) ==
  LET written == [ n \in Range(ArtifactNames) |->
                     CASE n = "feature_engineer.pkl" -> JoblibDump(p.feature_engineer)
                       [] n = "baseline_model.pkl" -> JoblibDump(p.baseline_model)
                       [] n = "advanced_model.pkl" -> JoblibDump(p.advanced_model)
                       [] n = "metadata.pkl" -> JoblibDump(p.metadata) ]
  IN [n \in DOMAIN dir \cup DOMAIN written |->
        IF n \in DOMAIN written THEN written[n] ELSE dir[n]]

\* ETAPredictor.load: the predictor read back, or FileNotFoundError.
Load(dir) ==
  IF \E i \in DOMAIN ArtifactNames : ArtifactNames[i] \notin DOMAIN dir
  THEN Raised("FileNotFoundError")
  ELSE Returned([ feature_engineer |-> JoblibLoad(dir["feature_engineer.pkl"]),
                  baseline_model |-> JoblibLoad(dir["baseline_model.pkl"]),
                  advanced_model |-> JoblibLoad(dir["advanced_model.pkl"]),
                  metadata |-> JoblibLoad(dir["metadata.pkl"]),
                  fitted |-> TRUE ])

\* ---------------------------------------------------------------------- API

\* api/main.py line 33: the process before startup.
AppInit == [started |-> FALSE, predictor |-> None]

\* startup_event: the predictor is loaded if the model directory exists.
Startup(dir) ==
  IF dir = <<>> THEN Returned([started |-> TRUE, predictor |-> None])
  ELSE IF ~Load(dir).ok THEN Load(dir)
  ELSE Returned([started |-> TRUE, predictor |-> Load(dir).value])

\* The body of a POST /predict_eta; request_time is None in a body that lacks
\* it.
ETARequest(pickup, dropoff, t) ==
  [pickup_zone |-> pickup, dropoff_zone |-> dropoff, request_time |-> t]

\* Field(..., ge=0, lt=100)
ZoneFieldValid(v) == 0 <= v /\ v < 100

\* ETARequest without its validator: the three fields alone.
FieldsValid(body) ==
  /\ ZoneFieldValid(body.pickup_zone)
  /\ ZoneFieldValid(body.dropoff_zone)
  /\ body.request_time # None

\* ETARequest: the fields, then zones_different on a dropoff_zone that passed
\* its field, pickup_zone being among the values only if it passed its own.
RequestValid(body) ==
  /\ ZoneFieldValid(body.pickup_zone)
  /\ ZoneFieldValid(body.dropoff_zone)
  /\ body.request_time # None
  /\ body.dropoff_zone # body.pickup_zone

Response(status_code, body, calls) ==
  Returned([status_code |-> status_code, body |-> body, calls |-> calls])

\* Lines 75-88: the response to what predict gave.
PredictEtaRespond(r) ==
  IF r.ok THEN Response(200, r.value, <<"predict">>)
  ELSE Response(500, [detail |-> r.err], <<"predict">>)

\* predict_eta behind the request validation of the framework.
PredictEta(a, cfg, body, now) ==
  IF ~RequestValid(body) THEN Response(422, [detail |-> "validation"], <<>>)
  ELSE IF a.predictor = None THEN Response(503, [detail |-> "not loaded"], <<>>)
  ELSE PredictEtaRespond(Predict(a.predictor, cfg,
                                 Request(body.pickup_zone, body.dropoff_zone,
                                         body.request_time, "advanced"), now))

\* -------------------------------------------------------------------- state

VARIABLES
  zones_cfg,   \* the zones section of the configuration
  lib,         \* which fitting function the regression libraries compute
  subject,     \* the component a stand-alone run exercises
  fe,          \* a stand-alone FeatureEngineer
  bm,          \* a stand-alone BaselineModel
  am,          \* a stand-alone AdvancedModel
  completed,   \* the stand-alone components on which a fit has completed
  ftCols,      \* the column list the latest fit_transform returned, or None
  pred,        \* the ETAPredictor
  origin,      \* how pred came about: "constructed" or "loaded"
  model_dir,   \* the model directory: file name -> content
  saved_from,  \* the predictor save was last called on, and whether a train
               \* had completed on it
  th,          \* per serving thread: where its predict call stands, and its locals
  gen,         \* the generator: its configuration, where generate_dataset
               \* stands, its locals
  df,          \* the table handed to split_data
  app,         \* the API process: its global predictor
  out          \* the latest operation: its name, argument and outcome

compVars == <<subject, fe, bm, am, completed, ftCols>>

persistVars == <<origin, model_dir, saved_from>>

\* The variables of the serving, generator, split and API runs.
otherVars == <<th, gen, df, app>>

vars == <<zones_cfg, lib, out, compVars, pred, persistVars, otherVars>>

\* What a stand-alone component run leaves alone.
restVars == <<pred, persistVars, otherVars>>

\* The threads that serve predict requests.
Threads == 1 .. NThreads

IdleThread ==
  [pc |-> "idle", rq |-> None, now |-> None, seen |-> None, input_data |-> None,
   f |-> None, result |-> None]

ServingIdle == th = [t \in Threads |-> IdleThread]

GeneratorUnused == gen = GeneratorIdle(UsualConfig)

NoTable == df = <<>>

AppDown == app = AppInit

PersistIdle ==
  /\ origin = "constructed"
  /\ model_dir = <<>>
  /\ saved_from = None

PredictorIdle ==
  /\ pred = ETAPredictorInit /\ PersistIdle /\ ServingIdle /\ GeneratorUnused
  /\ NoTable /\ AppDown

NoOut == [op |-> "", arg |-> None, ok |-> TRUE, err |-> "", value |-> None]

Out(op, arg, r) == [op |-> op, arg |-> arg, ok |-> r.ok, err |-> r.err, value |-> r.value]

ComponentsIdle ==
  /\ subject = ""
  /\ fe = FeatureEngineerInit
  /\ bm = BaselineModelInit
  /\ am = AdvancedModelInit
  /\ completed = {}
  /\ ftCols = None

\* ------------------------------------------------- stand-alone component runs

Subjects == {"feature_engineer", "baseline_model", "advanced_model"}

\* The feature frame and label column a model is handed for a batch: the
\* batch put through a feature engineer fitted on it.
FeatureTable ==
  [ cfg \in ZoneConfigs |->
      [ix \in BatchIx |-> FitTransform(FeatureEngineerInit, BatchTable[cfg][ix]).frame] ]

Batch(ix) == BatchTable[zones_cfg][ix]

FeaturesOf(ix) == FeatureTable[zones_cfg][ix]

LabelsOf(ix) == Durations(Batch(ix).rows)

\* The labels evaluate is handed with a frame: the durations of its trips, or
\* those with the first one zero.
LabelChoices(ix) == { LabelsOf(ix), [LabelsOf(ix) EXCEPT ![1] = 0] }

EvaluateOut(b, y, r) ==
  [op |-> "evaluate", arg |-> b, y |-> y, ok |-> r.ok, err |-> r.err, value |-> r.value]

InitComponents ==
  /\ zones_cfg = CfgDisjoint
  /\ subject \in Subjects
  /\ lib \in (IF subject = "feature_engineer" THEN {0} ELSE LibChoices)
  /\ fe = FeatureEngineerInit
  /\ bm = BaselineModelInit
  /\ am = AdvancedModelInit
  /\ completed = {}
  /\ ftCols = None
  /\ PredictorIdle
  /\ out = NoOut

FEFit(b) ==
  /\ subject = "feature_engineer"
  /\ fe' = Fit(fe, Batch(b))
  /\ completed' = completed \cup {"feature_engineer"}
  /\ out' = Out("fit", b, Returned(None))
  /\ UNCHANGED <<restVars, zones_cfg, lib, subject, bm, am, ftCols>>

FEFitTransform(b) ==
  /\ subject = "feature_engineer"
  /\ LET r == FitTransform(fe, Batch(b)) IN
       /\ fe' = r.fe
       /\ ftCols' = r.frame.cols
       /\ out' = Out("fit_transform", b, Returned(r.frame))
  /\ completed' = completed \cup {"feature_engineer"}
  /\ UNCHANGED <<restVars, zones_cfg, lib, subject, bm, am>>

FETransform(b) ==
  /\ subject = "feature_engineer"
  /\ LET r == Transform(fe, Batch(b)) IN
       out' = Out("transform", b, IF r.ok THEN Returned(r.frame) ELSE Raised(r.err))
  /\ UNCHANGED <<restVars, zones_cfg, lib, compVars>>

\* The frame of one Monday trip requested at the given hour.
HourFrame(hour) ==
  Frame(RawColumns,
        <<TripRecord(DefineZoneTypes(zones_cfg), 0, 0, 3, [day |-> 0, hour |-> hour],
                     12 * Scale, "clear", 0, 100)>>)

\* transform of a trip at any hour of the day.
FETransformHour(hour) ==
  /\ subject = "feature_engineer"
  /\ LET r == Transform(fe, HourFrame(hour)) IN
       out' = Out("transform of an hour", hour,
                  IF r.ok THEN Returned(r.frame) ELSE Raised(r.err))
  /\ UNCHANGED <<restVars, zones_cfg, lib, compVars>>

BMFit(b, libFails) ==
  /\ subject = "baseline_model"
  /\ LET r == BaselineFit(bm, lib, FeaturesOf(b), LabelsOf(b), libFails) IN
       /\ bm' = r.m
       /\ completed' = IF r.ok THEN completed \cup {"baseline_model"} ELSE completed
       /\ out' = Out("fit", b, IF r.ok THEN Returned(None) ELSE Raised(r.err))
  /\ UNCHANGED <<restVars, zones_cfg, lib, subject, fe, am, ftCols>>

BMPredict(b) ==
  /\ subject = "baseline_model"
  /\ out' = Out("predict", b, BaselinePredict(bm, FeaturesOf(b)))
  /\ UNCHANGED <<restVars, zones_cfg, lib, compVars>>

BMEvaluate(b, y) ==
  /\ subject = "baseline_model"
  /\ out' = EvaluateOut(b, y, BaselineEvaluate(bm, FeaturesOf(b), y))
  /\ UNCHANGED <<restVars, zones_cfg, lib, compVars>>

AMFit(b, libFails) ==
  /\ subject = "advanced_model"
  /\ LET r == AdvancedFit(am, lib, FeaturesOf(b), LabelsOf(b), None, None, libFails) IN
       /\ am' = r.m
       /\ completed' = IF r.ok THEN completed \cup {"advanced_model"} ELSE completed
       /\ out' = Out("fit", b, IF r.ok THEN Returned(None) ELSE Raised(r.err))
  /\ UNCHANGED <<restVars, zones_cfg, lib, subject, fe, bm, ftCols>>

AMPredict(b) ==
  /\ subject = "advanced_model"
  /\ out' = Out("predict", b, AdvancedPredict(am, FeaturesOf(b)))
  /\ UNCHANGED <<restVars, zones_cfg, lib, compVars>>

\* The frame with its columns in the opposite order.
Reversed(f) == Frame([i \in DOMAIN f.cols |-> f.cols[Len(f.cols) + 1 - i]], f.rows)

ReorderedOut(b, r) ==
  [op |-> "predict", arg |-> b, order |-> "reversed", ok |-> r.ok, err |-> r.err,
   value |-> r.value]

\* predict on a frame whose columns come in another order than fit saw them.
AMPredictReordered(b) ==
  /\ subject = "advanced_model"
  /\ out' = ReorderedOut(b, AdvancedPredict(am, Reversed(FeaturesOf(b))))
  /\ UNCHANGED <<restVars, zones_cfg, lib, compVars>>

AMPredictWithConfidence(b) ==
  /\ subject = "advanced_model"
  /\ out' = Out("predict_with_confidence", b, PredictWithConfidence(am, FeaturesOf(b)))
  /\ UNCHANGED <<restVars, zones_cfg, lib, compVars>>

AMEvaluate(b, y) ==
  /\ subject = "advanced_model"
  /\ out' = EvaluateOut(b, y, AdvancedEvaluate(am, FeaturesOf(b), y))
  /\ UNCHANGED <<restVars, zones_cfg, lib, compVars>>

NextComponents ==
  \/ \E hour \in 0 .. 23 : FETransformHour(hour)
  \/ \E b \in BatchIx :
       \/ FEFit(b)
       \/ FEFitTransform(b)
       \/ FETransform(b)
       \/ \E libFails \in BOOLEAN : BMFit(b, libFails)
       \/ BMPredict(b)
       \/ \E y \in LabelChoices(b) : BMEvaluate(b, y)
       \/ \E libFails \in BOOLEAN : AMFit(b, libFails)
       \/ AMPredict(b)
       \/ AMPredictReordered(b)
       \/ AMPredictWithConfidence(b)
       \/ \E y \in LabelChoices(b) : AMEvaluate(b, y)

SpecComponents == InitComponents /\ [][NextComponents]_vars

\* ------------------------------------------------------------ predictor runs

\* The clock reading a call sees: Saturday 22:00.
Nows == {[day |-> 5, hour |-> 22]}

\* The training frames: the first two trips, and the last.
TrainIx == {ix \in BatchIx : ix \in {<<1, 2>>, <<3>>}}

\* The trips asked about: corner to corner on Monday 08:00 (rush hour) and on
\* Friday 12:00 (prayer time), and within zone 1 with no time given.
ReqTrips ==
  { <<0, NZones - 1, [day |-> 0, hour |-> 8]>>,
    <<0, NZones - 1, [day |-> 4, hour |-> 12]>>,
    <<1, 1, None>> }

Requests == { Request(z[1], z[2], z[3], mt) : z \in ReqTrips, mt \in ModelTypes }

\* The validation frames train is handed, as batch indices: none (the empty
\* index) or one of two one-trip batches.
ValChoices == {<<>>, <<2>>, <<3>>}

ValFrame(v) == IF v = <<>> THEN None ELSE Batch(v)

FailPoints == {"none", "baseline", "advanced"}

InitPredictor ==
  /\ zones_cfg = CfgDisjoint
  /\ lib \in LibChoices
  /\ ComponentsIdle
  /\ PredictorIdle
  /\ out = NoOut

\* train has ended with r.
Trained(b, v, r) ==
  /\ pred' = r.p
  /\ completed' = IF r.ok THEN completed \cup {"predictor"} ELSE completed
  /\ out' = Out("train", <<b, v>>, IF r.ok THEN Returned(None) ELSE Raised(r.err))

PTrain(b, v, failAt, now) ==
  /\ Trained(b, v, Train(pred, lib, Batch(b), IF v = <<>> THEN None ELSE Batch(v),
                         failAt, now))
  /\ UNCHANGED <<zones_cfg, lib, subject, fe, bm, am, ftCols, persistVars, otherVars>>

PredictOut(rq, r) ==
  [op |-> "predict", arg |-> rq, ok |-> r.ok, err |-> r.err, value |-> r.value,
   calls |-> r.calls]

PPredict(rq, now) ==
  /\ out' = PredictOut(rq, Predict(pred, zones_cfg, rq, now))
  /\ UNCHANGED <<zones_cfg, lib, compVars, pred, persistVars, otherVars>>

PEvaluateAll(b) ==
  /\ out' = Out("evaluate_all", b, EvaluateAll(pred, Batch(b)))
  /\ UNCHANGED <<zones_cfg, lib, compVars, pred, persistVars, otherVars>>

\* The rows _decompose_factors is handed: any distance on the grid and any
\* pair of flags, and rows without an is_friday_prayer entry.
FactorTrips ==
  { [dubai_distance |-> d, is_rush_hour |-> r, is_friday_prayer |-> f] :
      d \in 0 .. (2 * (GridSize - 1)), r \in {0, 1}, f \in {0, 1} }
  \cup { [dubai_distance |-> d, is_rush_hour |-> r] :
           d \in 0 .. (2 * (GridSize - 1)), r \in {0, 1} }

\* The predictions it is handed, in 1/Scale minute: 0, 0.3, 12.34 and 15.17
\* minutes.
FactorPredictions == {0, 30, 1234, 1517}

PDecompose(trip_data, prediction) ==
  /\ out' = Out("_decompose_factors", [trip_data |-> trip_data, prediction |-> prediction],
                Returned(DecomposeFactors(trip_data, prediction)))
  /\ UNCHANGED <<zones_cfg, lib, compVars, pred, persistVars, otherVars>>

NextPredictor ==
  \/ \E b \in TrainIx, v \in ValChoices, failAt \in FailPoints, now \in Nows :
       PTrain(b, v, failAt, now)
  \/ \E rq \in Requests, now \in Nows : PPredict(rq, now)
  \/ \E b \in TrainIx : PEvaluateAll(b)

SpecPredictor == InitPredictor /\ [][NextPredictor]_vars

\* _decompose_factors reads nothing of the predictor: runs of it alone.
NextFactors ==
  \E trip_data \in FactorTrips, prediction \in FactorPredictions :
    PDecompose(trip_data, prediction)

SpecFactors == InitPredictor /\ [][NextFactors]_vars

\* ---------------------------------------------------------- save and load

\* The training frame and the requests of the persistence runs.
PersistTrainIx == {ix \in TrainIx : Len(ix) = 2}

PersistRequests == { rq \in Requests : rq.request_time = [day |-> 0, hour |-> 8] }

PSave ==
  /\ model_dir' = Save(pred, model_dir)
  /\ saved_from' = [p |-> pred, trained |-> "predictor" \in completed]
  /\ out' = Out("save", None, Returned(None))
  /\ UNCHANGED <<zones_cfg, lib, compVars, pred, origin, otherVars>>

\* pred = ETAPredictor.load(model_dir)
Loaded(r) ==
  /\ out' = Out("load", None, IF r.ok THEN Returned(None) ELSE r)
  /\ pred' = IF r.ok THEN r.value ELSE pred
  /\ origin' = IF r.ok THEN "loaded" ELSE origin
  /\ completed' = IF ~r.ok THEN completed
                  ELSE IF saved_from.trained THEN {"predictor"} ELSE {}

PLoad ==
  /\ Loaded(Load(model_dir))
  /\ UNCHANGED <<zones_cfg, lib, subject, fe, bm, am, ftCols, model_dir, saved_from, otherVars>>

NextPersist ==
  \/ \E b \in PersistTrainIx, failAt \in FailPoints, now \in Nows : PTrain(b, <<>>, failAt, now)
  \/ \E rq \in PersistRequests, now \in Nows : PPredict(rq, now)
  \/ PSave
  \/ PLoad

SpecPersist == InitPredictor /\ [][NextPersist]_vars

\* -------------------------------------------------------------- serving runs
\* Predict calls of several threads on the one predictor, interleaved at the
\* points where a call reads the predictor: the guard, the transform, the
\* model call.  Training is serialised by the caller: it runs only while no
\* call is in flight.

ServeTrainIx == PersistTrainIx

ServeRequests == PersistRequests

\* A transform that keeps the column list of the frame it was handed.
TransformCallKeepsColumns(p, input_data) ==
  [ p |-> [p EXCEPT !.feature_engineer.training_columns = input_data.cols],
    f |-> PredictFeatures(p, input_data) ]

\* FeatureEngineer.transform as predict calls it: the predictor after the call
\* (transform assigns to no attribute) and what it returned.
TransformCall(p, input_data) == [p |-> p, f |-> PredictFeatures(p, input_data)]

AllIdle == \A t \in Threads : th[t].pc = "idle"

STrain(b, v, failAt, now) ==
  /\ AllIdle
  /\ Trained(b, v, Train(pred, lib, Batch(b), IF v = <<>> THEN None ELSE Batch(v),
                         failAt, now))
  /\ UNCHANGED <<zones_cfg, lib, subject, fe, bm, am, ftCols, persistVars, otherVars>>

SCall(t, rq, now) ==
  /\ th[t].pc = "idle"
  /\ th' = [th EXCEPT ![t] = [IdleThread EXCEPT !.pc = "guard", !.rq = rq, !.now = now,
                                                !.seen = pred]]
  /\ UNCHANGED <<zones_cfg, lib, compVars, pred, persistVars, out, gen, df, app>>

\* Lines 69-87: the guard, then the input frame.
SGuard(t) ==
  /\ th[t].pc = "guard"
  /\ th' = [th EXCEPT ![t] =
              IF ~pred.fitted
              THEN [@ EXCEPT !.pc = "done",
                             !.result = [ok |-> FALSE, err |-> "ValueError",
                                         value |-> None, calls |-> <<>>]]
              ELSE IF th[t].rq.request_time = None
              THEN [@ EXCEPT !.pc = "done", !.result = NoRequestTime]
              ELSE [@ EXCEPT !.pc = "transform",
                             !.input_data = PredictInput(zones_cfg, th[t].rq)]]
  /\ UNCHANGED <<zones_cfg, lib, compVars, pred, persistVars, out, gen, df, app>>

Transformed(t, c) ==
  /\ pred' = c.p
  /\ th' = [th EXCEPT ![t] = [@ EXCEPT !.pc = "model", !.f = c.f]]

\* Lines 89-92
STransform(t) ==
  /\ th[t].pc = "transform"
  /\ Transformed(t, TransformCall(pred, th[t].input_data))
  /\ UNCHANGED <<zones_cfg, lib, compVars, persistVars, out, gen, df, app>>

\* Lines 94-115
SModel(t) ==
  /\ th[t].pc = "model"
  /\ th' = [th EXCEPT ![t] =
              [@ EXCEPT !.pc = "done",
                        !.result = PredictOnFeatures(pred, th[t].input_data, th[t].f,
                                                     th[t].rq.model_type, th[t].now)]]
  /\ UNCHANGED <<zones_cfg, lib, compVars, pred, persistVars, out, gen, df, app>>

SReturn(t) ==
  /\ th[t].pc = "done"
  /\ out' = PredictOut(th[t].rq, th[t].result)
  /\ th' = [th EXCEPT ![t] = IdleThread]
  /\ UNCHANGED <<zones_cfg, lib, compVars, pred, persistVars, gen, df, app>>

NextServing ==
  \/ \E b \in ServeTrainIx, failAt \in FailPoints, now \in Nows : STrain(b, <<>>, failAt, now)
  \/ \E t \in Threads :
       \/ \E rq \in ServeRequests, now \in Nows : SCall(t, rq, now)
       \/ SGuard(t)
       \/ STransform(t)
       \/ SModel(t)
       \/ SReturn(t)

SpecServing == InitPredictor /\ [][NextServing]_vars

\* ----------------------------------------------------------- generator runs
\* generate_dataset step by step, one action per random draw or group of
\* draws made together.

InitGenerator ==
  /\ lib = 0
  /\ ComponentsIdle
  /\ pred = ETAPredictorInit /\ PersistIdle /\ ServingIdle /\ NoTable /\ AppDown
  /\ \/ zones_cfg = CfgDisjoint /\ gen \in {GeneratorIdle(cfg) : cfg \in GenConfigs}
     \/ zones_cfg = CfgSingle /\ gen = GeneratorIdle(SingleZoneConfig)
  /\ out = NoOut

zone_types == DefineZoneTypes(zones_cfg)

GenFrame == <<zones_cfg, lib, compVars, pred, persistVars, th, df, app>>

\* Lines 172-188
GGenerate(n) ==
  /\ gen.pc = "idle"
  /\ gen' = [GeneratorIdle(gen.cfg) EXCEPT !.pc = "timestamp", !.n_trips = n]
  /\ out' = NoOut
  /\ UNCHANGED GenFrame

\* Lines 190-192
GTimestamp(t) ==
  /\ gen.pc = "timestamp" /\ gen.i < gen.n_trips
  /\ gen' = [GeneratorIdle(gen.cfg) EXCEPT
               !.pc = "pickup", !.n_trips = gen.n_trips, !.i = gen.i,
               !.trips_len = gen.trips_len, !.timestamp = t]
  /\ UNCHANGED <<GenFrame, out>>

\* Line 195
GPickup ==
  /\ gen.pc = "pickup"
  /\ \E z \in ZoneDraws(gen.cfg.data.n_zones, zone_types, gen.timestamp.hour) :
       gen' = [gen EXCEPT !.pc = "dropoff", !.pickup = z]
  /\ UNCHANGED <<GenFrame, out>>

\* Line 196
GDropoff ==
  /\ gen.pc = "dropoff"
  /\ \E z \in ZoneDraws(gen.cfg.data.n_zones, zone_types, gen.timestamp.hour) :
       gen' = [gen EXCEPT !.pc = "ensure", !.dropoff = z]
  /\ UNCHANGED <<GenFrame, out>>

\* Lines 199-200
GResample ==
  /\ gen.pc = "ensure" /\ NeedsResample(gen.pickup, gen.dropoff)
  /\ \E z \in ZoneDraws(gen.cfg.data.n_zones, zone_types, gen.timestamp.hour) :
       gen' = [gen EXCEPT !.dropoff = z, !.resampled = TRUE]
  /\ UNCHANGED <<GenFrame, out>>

\* Line 203
GBase ==
  /\ gen.pc = "ensure" /\ ~NeedsResample(gen.pickup, gen.dropoff)
  /\ \E noise \in NoiseDraws :
       gen' = [gen EXCEPT !.pc = "temporal",
                 !.duration = CalculateBaseDuration(zone_types, gen.pickup,
                                                    gen.dropoff, noise)]
  /\ UNCHANGED <<GenFrame, out>>

\* Lines 204-206
GTemporal ==
  /\ gen.pc = "temporal"
  /\ \E u \in TemporalDraws(gen.cfg, gen.timestamp.hour, Weekday(gen.timestamp)) :
       gen' = [gen EXCEPT !.pc = "weather",
                 !.duration = ApplyTemporalFactors(gen.duration, gen.timestamp.hour,
                                                   Weekday(gen.timestamp), u)]
  /\ UNCHANGED <<GenFrame, out>>

\* Line 207
GWeather ==
  /\ gen.pc = "weather"
  /\ \E w \in WeatherDraws(gen.cfg) :
       gen' = [gen EXCEPT !.pc = "event",
                 !.duration = ApplyWeatherEvents(gen.cfg, gen.duration, w)[1],
                 !.weather = ApplyWeatherEvents(gen.cfg, gen.duration, w)[2],
                 !.draws = w]
  /\ UNCHANGED <<GenFrame, out>>

\* Lines 208-210
GEvent ==
  /\ gen.pc = "event"
  /\ \E e \in EventDraws(zone_types, gen.pickup, gen.timestamp.hour) :
       gen' = [gen EXCEPT !.pc = "driver",
                 !.duration = ApplySpecialEvents(zone_types, gen.duration, gen.pickup,
                                                 gen.timestamp.hour, e)[1],
                 !.has_event = ApplySpecialEvents(zone_types, gen.duration, gen.pickup,
                                                  gen.timestamp.hour, e)[2],
                 !.draws = None]
  /\ UNCHANGED <<GenFrame, out>>

\* Lines 213-235: the driver efficiency, and the row.
GDriver ==
  /\ gen.pc = "driver"
  /\ \E d \in EfficiencyDraws :
       gen' = [gen EXCEPT
                 !.pc = "timestamp",
                 !.duration = Times(gen.duration, ClampEfficiency(d)),
                 !.latest = TripRecord(zone_types, gen.i, gen.pickup, gen.dropoff,
                                       gen.timestamp,
                                       FlooredDuration(Times(gen.duration,
                                                             ClampEfficiency(d))),
                                       gen.weather, gen.has_event, ClampEfficiency(d)),
                 !.trips_len = gen.trips_len + 1,
                 !.i = gen.i + 1]
  /\ UNCHANGED <<GenFrame, out>>

\* Lines 237-238
GReturn ==
  /\ gen.pc = "timestamp" /\ gen.i = gen.n_trips
  /\ gen' = [gen EXCEPT !.pc = "idle"]
  /\ out' = Out("generate_dataset", gen.n_trips,
                Returned([cols |-> RawColumns, n_rows |-> gen.trips_len]))
  /\ UNCHANGED GenFrame

NextGenerator ==
  \/ \E n \in 0 .. MaxTrips : GGenerate(n)
  \/ \E t \in TimestampDraws : GTimestamp(t)
  \/ GPickup
  \/ GDropoff
  \/ GResample
  \/ GBase
  \/ GTemporal
  \/ GWeather
  \/ GEvent
  \/ GDriver
  \/ GReturn

SpecGenerator == InitGenerator /\ [][NextGenerator]_vars

\* A call of generate_dataset, once made, runs on.
GenRuns ==
  \/ \E t \in TimestampDraws : GTimestamp(t)
  \/ GPickup
  \/ GDropoff
  \/ GResample
  \/ GBase
  \/ GTemporal
  \/ GWeather
  \/ GEvent
  \/ GDriver
  \/ GReturn

\* The dropoff zone drawn again comes out another zone than the pickup zone.
GResampleOther == GResample /\ gen'.dropoff # gen.pickup

\* The generator runs, and a draw that has positive probability at every
\* turn of the loop is not avoided for ever.
SpecGeneratorFair ==
  /\ InitGenerator
  /\ [][NextGenerator]_vars
  /\ WF_vars(GenRuns)
  /\ SF_vars(GResampleOther)

\* --------------------------------------------------------------- split runs

InitSplit ==
  /\ zones_cfg = CfgDisjoint
  /\ lib = 0
  /\ ComponentsIdle
  /\ PredictorIdle
  /\ out = NoOut

\* A table of any length up to MaxRows with its rows in any order of time.
AddRow(t) ==
  /\ Len(df) < MaxRows
  /\ df' = Append(df, [trip_id |-> Len(df), request_datetime |-> t])
  /\ out' = NoOut
  /\ UNCHANGED <<zones_cfg, lib, compVars, pred, persistVars, th, gen, app>>

Split(ratios) ==
  /\ \E parts \in SplitData(df, ratios) :
       out' = Out("split_data", ratios, Returned(parts))
  /\ UNCHANGED <<zones_cfg, lib, compVars, pred, persistVars, otherVars>>

NextSplit ==
  \/ \E t \in 0 .. MaxTime : AddRow(t)
  \/ \E ratios \in SplitRatios : Split(ratios)

SpecSplit == InitSplit /\ [][NextSplit]_vars

\* ---------------------------------------------------------- split sizes runs
\* Tables of every length up to MaxTable, their rows in ascending time.

AddLater ==
  /\ Len(df) < MaxTable
  /\ df' = Append(df, [trip_id |-> Len(df), request_datetime |-> Len(df)])
  /\ out' = NoOut
  /\ UNCHANGED <<zones_cfg, lib, compVars, pred, persistVars, th, gen, app>>

NextSizes ==
  \/ AddLater
  \/ \E ratios \in SplitRatios : Split(ratios)

SpecSizes == InitSplit /\ [][NextSizes]_vars

\* ---------------------------------------------------------------- zone runs
\* The zone functions applied to ids in the grid and one step outside it; the
\* functions keep no state, so a run makes one call.

GridSizes == {GridSize, DefaultGridSize}

IdsAround(grid_size) == -1 .. (grid_size * grid_size)

InitZones ==
  /\ zones_cfg \in ZoneConfigs
  /\ lib = 0
  /\ ComponentsIdle
  /\ PredictorIdle
  /\ out = NoOut

ZoneFrame == <<zones_cfg, lib, compVars, pred, persistVars, otherVars>>

CalcDistance(grid_size, pickup, dropoff) ==
  /\ out.op = ""
  /\ out' = Out("calculate_dubai_distance",
                [grid_size |-> grid_size, pickup |-> pickup, dropoff |-> dropoff],
                Returned(CalculateDubaiDistance(grid_size, pickup, dropoff)))
  /\ UNCHANGED ZoneFrame

\* self.zone_types.get(zone, 'residential') of the generator
ZoneTypeGet(zone) ==
  /\ out.op = ""
  /\ out' = Out("zone_types.get", [zone |-> zone],
                Returned(IF zone \in DOMAIN zone_types THEN zone_types[zone]
                         ELSE "residential"))
  /\ UNCHANGED ZoneFrame

\* ETAPredictor._get_zone_type
ZoneTypeOf(zone) ==
  /\ out.op = ""
  /\ out' = Out("_get_zone_type", [zone |-> zone], Returned(GetZoneType(zones_cfg, zone)))
  /\ UNCHANGED ZoneFrame

\* DubaiDataGenerator._is_rush_hour
GenRushHour(hour) ==
  /\ out.op = ""
  /\ out' = Out("DubaiDataGenerator._is_rush_hour", [hour |-> hour],
                Returned(GeneratorIsRushHour(gen.cfg, hour)))
  /\ UNCHANGED ZoneFrame

\* ETAPredictor._is_rush_hour
PredRushHour(hour) ==
  /\ out.op = ""
  /\ out' = Out("ETAPredictor._is_rush_hour", [hour |-> hour],
                Returned(PredictorIsRushHour(gen.cfg, hour)))
  /\ UNCHANGED ZoneFrame

NextZones ==
  /\ out.op = ""
  /\ \/ \E grid_size \in GridSizes :
          \E pickup \in IdsAround(grid_size), dropoff \in IdsAround(grid_size) :
            CalcDistance(grid_size, pickup, dropoff)
     \/ \E zone \in IdsAround(GridSize) : ZoneTypeGet(zone)
     \/ \E zone \in IdsAround(GridSize) : ZoneTypeOf(zone)
     \/ \E hour \in 0 .. 23 : GenRushHour(hour)
     \/ \E hour \in 0 .. 23 : PredRushHour(hour)

SpecZones == InitZones /\ [][NextZones]_vars

\* ------------------------------------------------------------------ API runs
\* A predictor is trained and saved; the API process starts, loading what the
\* model directory holds, and answers requests, before startup as well.

ApiZoneIds == {-1, 0, 99, 100}

ApiTimes == {None, [day |-> 0, hour |-> 8]}

ApiBodies ==
  { ETARequest(pickup, dropoff, t) : pickup \in ApiZoneIds, dropoff \in ApiZoneIds, t \in ApiTimes }

AStartup ==
  /\ ~app.started
  /\ Startup(model_dir).ok
  /\ app' = Startup(model_dir).value
  /\ out' = Out("startup_event", None, Returned(None))
  /\ UNCHANGED <<zones_cfg, lib, compVars, pred, persistVars, th, gen, df>>

APredictEta(body, now) ==
  /\ out' = Out("predict_eta", body, PredictEta(app, zones_cfg, body, now))
  /\ UNCHANGED <<zones_cfg, lib, compVars, pred, persistVars, otherVars>>

NextApi ==
  \/ \E b \in PersistTrainIx, failAt \in FailPoints, now \in Nows : PTrain(b, <<>>, failAt, now)
  \/ PSave
  \/ AStartup
  \/ \E body \in ApiBodies, now \in Nows : APredictEta(body, now)

SpecApi == InitPredictor /\ [][NextApi]_vars

\* --------------------------------------------------------------- properties

LevelsIn(ix, col) == Range(Column(Batch(ix).rows, col))

\* C1: once fit_transform has returned, a transform of any batch returns
\* exactly the column list fit_transform returned, in that order; a one-hot
\* column of that list whose level the batch lacks is all zero, and no one-hot
\* column outside that list appears.
C1_TransformKeepsTrainingColumns ==
  (subject = "feature_engineer" /\ out.op = "transform" /\ ftCols # None) =>
    /\ out.ok
    /\ out.value.cols = ftCols
    /\ \A col \in Range(CategoricalCols) : \A lv \in Range(SortedLevels(col)) :
         LET c == DummyName(col, lv) IN
           /\ (c \in Range(ftCols) /\ lv \notin LevelsIn(out.arg, col)) =>
                \A i \in DOMAIN out.value.rows : out.value.rows[i][c] = 0
           /\ (c \notin Range(ftCols)) => c \notin Range(out.value.cols)

\* A transform after fit_transform of a batch that has a level the training
\* batch lacked and lacks a level the training batch had.
C1_Witness ==
  /\ subject = "feature_engineer" /\ out.op = "transform" /\ ftCols # None /\ out.ok
  /\ \E col \in Range(CategoricalCols) : \E lv \in LevelsIn(out.arg, col) :
       DummyName(col, lv) \notin Range(ftCols)
  /\ \E col \in Range(CategoricalCols) : \E lv \in Range(SortedLevels(col)) :
       DummyName(col, lv) \in Range(ftCols) /\ lv \notin LevelsIn(out.arg, col)

NeedsFit ==
  { <<"feature_engineer", "transform">>, <<"baseline_model", "predict">>,
    <<"baseline_model", "evaluate">>, <<"advanced_model", "predict">>,
    <<"advanced_model", "predict_with_confidence">>, <<"advanced_model", "evaluate">> }

SubjectFitted ==
  CASE subject = "feature_engineer" -> fe.fitted
    [] subject = "baseline_model" -> bm.fitted
    [] subject = "advanced_model" -> am.fitted
    [] OTHER -> FALSE

UnfittedCall == <<subject, out.op>> \in NeedsFit /\ subject \notin completed

\* C4 (as stated): an operation that needs a fitted component, called on an
\* instance whose fit never completed, fails with NotFittedError, returns
\* nothing and leaves the instance unfitted.
C4_FailsWithNotFittedError ==
  UnfittedCall => ~out.ok /\ out.err = "NotFittedError" /\ out.value = None /\ ~SubjectFitted

\* C4 (amended): the same, the error being Python's ValueError.
C4_FailsWithValueError ==
  UnfittedCall => ~out.ok /\ out.err = "ValueError" /\ out.value = None /\ ~SubjectFitted

\* predict_with_confidence on an AdvancedModel whose only fit raised.
C4_Witness ==
  /\ subject = "advanced_model" /\ out.op = "predict_with_confidence"
  /\ "advanced_model" \notin completed
  /\ am.feature_columns # None
  /\ ~out.ok

PredictReturned == out.op = "predict" /\ out.ok

\* The factor sum of a response, in 1/Scale minute.
FactorSum(f) ==
  (f.base_time + f.traffic_adjustment + f.weather_impact + f.zone_complexity)
    * (Scale \div 10)

\* No value _decompose_factors rounds for the returned estimate lies half-way
\* between two tenths, so that round() is decided by the value alone.
RoundingUnambiguous ==
  PredictReturned =>
    \A k \in {3, 4, 16, 17, 20} :
      2 * ((k * out.value.estimated_duration_minutes) % Tenth) # Tenth

\* C2 (as stated): the factors of every response predict returns add up to
\* its estimated_duration_minutes.
C2_FactorsSumToEstimate ==
  PredictReturned =>
    FactorSum(out.value.factors) = out.value.estimated_duration_minutes

\* C2 (amended): the factors, each rounded to one decimal, add up to the
\* estimate to within 0.1 minute.
C2_FactorsSumWithinATenth ==
  PredictReturned =>
    Abs(FactorSum(out.value.factors) - out.value.estimated_duration_minutes)
      <= Scale \div 10

\* A rush-hour response whose traffic and zone factors were both rounded and
\* whose factor sum differs from the estimate.
C2_Witness ==
  /\ PredictReturned
  /\ out.value.factors.traffic_adjustment > 0
  /\ out.value.factors.zone_complexity # 0
  /\ FactorSum(out.value.factors) # out.value.estimated_duration_minutes

\* C3: for either model type and a strictly positive estimate, the returned
\* interval satisfies lower < estimate < upper.
C3_IntervalBracketsEstimate ==
  (PredictReturned /\ out.value.estimated_duration_minutes > 0) =>
    /\ out.value.confidence_interval[1] < 1000 * out.value.estimated_duration_minutes
    /\ 1000 * out.value.estimated_duration_minutes < out.value.confidence_interval[2]

NeverTrained == "predictor" \notin completed

C7_LoadRestoresSaved ==
  (out.op = "load" /\ out.ok) =>
    /\ pred = saved_from.p
    /\ \A rq \in PersistRequests, now \in Nows :
         Predict(pred, zones_cfg, rq, now) = Predict(saved_from.p, zones_cfg, rq, now)

InFlight(t) == th[t].pc # "idle"

\* What predict returns: the estimate, the interval and the factors.
Answer(r) ==
  IF ~r.ok THEN r.err
  ELSE <<r.value.estimated_duration_minutes, r.value.confidence_interval, r.value.factors>>

\* C6: while predict calls are in flight on a trained predictor the predictor
\* is in every part what it was when each call began, and a call that has
\* finished holds the estimate, interval and factors predict gives when run
\* alone on that predictor.
C6_PredictIsReadOnly ==
  \A t \in Threads :
    (InFlight(t) /\ th[t].seen.fitted) =>
      /\ pred = th[t].seen
      /\ th[t].pc = "done" =>
           Answer(th[t].result)
             = Answer(Predict(th[t].seen, zones_cfg, th[t].rq, th[t].now))

\* Two calls in flight on a trained predictor, one finished with an answer
\* while the other has passed the guard and not yet called its model.
C6_Witness ==
  \E t, u \in Threads :
    /\ t # u
    /\ th[t].pc = "done" /\ th[t].result.ok /\ th[t].seen.fitted
    /\ th[u].pc = "model" /\ th[u].rq # th[t].rq

RowWritten == gen.latest # None

\* C8: every row generate_dataset writes has both zones in [0, n_zones) and
\* a dropoff zone other than the pickup zone.
C8_ZonesInRangeAndDistinct ==
  RowWritten =>
    /\ gen.latest.pickup_zone \in 0 .. (NZones - 1)
    /\ gen.latest.dropoff_zone \in 0 .. (NZones - 1)
    /\ gen.latest.pickup_zone # gen.latest.dropoff_zone

\* A row written for a trip whose dropoff zone was drawn again because the
\* first draw equalled the pickup zone.
C8_Witness ==
  /\ RowWritten /\ gen.pc = "timestamp" /\ gen.resampled
  /\ gen.latest.pickup_zone = gen.pickup /\ gen.latest.dropoff_zone = gen.dropoff

\* C9: every row generate_dataset writes has actual_duration_minutes >= 1.
C9_DurationAtLeastOneMinute ==
  RowWritten => gen.latest.actual_duration_minutes >= Scale

\* A row written at the floor: the duration that came out of the multipliers
\* was below one minute.
C9_Witness ==
  /\ RowWritten /\ gen.pc = "timestamp"
  /\ gen.duration < Scale
  /\ gen.latest.actual_duration_minutes = Scale
  /\ gen.latest.weather # "clear"

SplitReturned == out.op = "split_data"

\* No row of part later is earlier in time than a row of part earlier.
NotBefore(later, earlier) ==
  \A i \in DOMAIN earlier, j \in DOMAIN later :
    earlier[i].request_datetime <= later[j].request_datetime

\* C10: in what split_data returns no row of val is earlier than a row of
\* train and no row of test is earlier than a row of val or of train.
C10_PartsAreChronological ==
  SplitReturned =>
    /\ NotBefore(out.value.val, out.value.train)
    /\ NotBefore(out.value.test, out.value.val)
    /\ NotBefore(out.value.test, out.value.train)

\* A split into three non-empty parts of a table that came in out of order,
\* with one time on both sides of the cut between train and val.
C10_Witness ==
  /\ SplitReturned
  /\ out.value.train # <<>> /\ out.value.val # <<>> /\ out.value.test # <<>>
  /\ \E i \in 1 .. (Len(df) - 1) : df[i].request_datetime > df[i + 1].request_datetime
  /\ out.value.train[Len(out.value.train)].request_datetime
       = out.value.val[1].request_datetime

\* The rows of a table, as a set.
RowsOf(table) == { table[i] : i \in DOMAIN table }

\* The three parts hold every row of the table once.
EveryRowOnce ==
  /\ Len(out.value.train) + Len(out.value.val) + Len(out.value.test) = Len(df)
  /\ RowsOf(out.value.train) \cup RowsOf(out.value.val) \cup RowsOf(out.value.test) = RowsOf(df)

\* C11: with the ratios 0.7 and 0.15 a table of N rows is split into parts of
\* 0.7 N, 0.15 N and the remaining rows (the shares rounded down where they
\* are not whole), and the parts hold every row once.
C11_SizesAreShares ==
  (SplitReturned /\ out.arg = DefaultRatios) =>
    /\ Len(out.value.train) = (7 * Len(df)) \div 10
    /\ Len(out.value.val) = (15 * Len(df)) \div 100
    /\ Len(out.value.test) = Len(df) - (7 * Len(df)) \div 10 - (15 * Len(df)) \div 100
    /\ EveryRowOnce

DistanceReturned == out.op = "calculate_dubai_distance"

\* Both ids of a distance call lie on the grid.
OnGrid ==
  /\ out.arg.pickup \in 0 .. (out.arg.grid_size * out.arg.grid_size - 1)
  /\ out.arg.dropoff \in 0 .. (out.arg.grid_size * out.arg.grid_size - 1)

\* The call made the other way round returns d.
SameReversed(d) ==
  d = CalculateDubaiDistance(out.arg.grid_size, out.arg.dropoff, out.arg.pickup)

\* d is the number of row steps plus column steps between the two cells,
\* cell id = row * grid_size + column with the column in 0 .. grid_size - 1.
IsManhattan(d) ==
  \E r1 \in 0 .. (out.arg.grid_size - 1), r2 \in 0 .. (out.arg.grid_size - 1) :
    /\ out.arg.pickup - r1 * out.arg.grid_size \in 0 .. (out.arg.grid_size - 1)
    /\ out.arg.dropoff - r2 * out.arg.grid_size \in 0 .. (out.arg.grid_size - 1)
    /\ d = Abs(r1 - r2)
             + Abs((out.arg.pickup - r1 * out.arg.grid_size)
                     - (out.arg.dropoff - r2 * out.arg.grid_size))

\* C12: for ids on the grid the distance is the Manhattan distance between
\* the cells; it is the same in both directions, 0 from a zone to itself, and
\* 18 from zone 0 to zone 99 on the grid of side 10.
C12_DistanceIsManhattan ==
  (DistanceReturned /\ OnGrid) =>
    /\ out.ok
    /\ IsManhattan(out.value)
    /\ SameReversed(out.value)
    /\ out.arg.pickup = out.arg.dropoff => out.value = 0
    /\ (out.arg.grid_size = 10 /\ out.arg.pickup = 0 /\ out.arg.dropoff = 99)
         => out.value = 18

C12_Witness ==
  /\ DistanceReturned
  /\ out.arg.grid_size = 10 /\ out.arg.pickup = 0 /\ out.arg.dropoff = 99
  /\ out.value = 18

ZoneTypeReturned == out.op \in {"zone_types.get", "_get_zone_type"}

\* C13: a zone id outside the grid makes the distance and the zone type fail
\* with InvalidZoneError, and no distance or type is returned for it.
C13_OutOfRangeFails ==
  /\ (DistanceReturned /\ ~OnGrid) => (~out.ok /\ out.err = "InvalidZoneError")
  /\ (ZoneTypeReturned /\ out.arg.zone \notin Zones)
       => (~out.ok /\ out.err = "InvalidZoneError")

\* The places in the configuration that list a zone.
ListedAt(zone) == { i \in DOMAIN zones_cfg : zone \in zones_cfg[i][2] }

\* C14: after _define_zone_types every zone of the grid has one type:
\* residential if no entry of the configuration lists it, else the type of
\* the last entry that lists it.
C14_LastDeclaredTypeWins ==
  (out.op = "zone_types.get" /\ out.arg.zone \in Zones) =>
    /\ out.arg.zone \in DOMAIN zone_types
    /\ ListedAt(out.arg.zone) = {} => out.value = "residential"
    /\ \A i \in ListedAt(out.arg.zone) :
         (\A j \in ListedAt(out.arg.zone) : j <= i) => out.value = zones_cfg[i][1]

\* The type of a zone listed under two types has been read.
C14_Witness ==
  /\ out.op = "zone_types.get"
  /\ Cardinality(ListedAt(out.arg.zone)) = 2
  /\ out.value = zones_cfg[2][1]

RushHourReturned ==
  out.op \in {"DubaiDataGenerator._is_rush_hour", "ETAPredictor._is_rush_hour"}

\* C15: under the default configuration an hour is classified as rush hour
\* exactly if it is one of 7, 8, 9, 17, 18, 19, 20, and the generator and the
\* predictor classify every hour alike.
C15_RushHoursAgree ==
  RushHourReturned =>
    /\ out.value = (out.arg.hour \in {7, 8, 9, 17, 18, 19, 20})
    /\ out.value = GeneratorIsRushHour(gen.cfg, out.arg.hour)
    /\ out.value = PredictorIsRushHour(gen.cfg, out.arg.hour)

\* The predictor has classified an evening rush hour.
C15_Witness ==
  /\ out.op = "ETAPredictor._is_rush_hour"
  /\ out.arg.hour = 20
  /\ out.value = TRUE

PredictEtaAnswered == out.op = "predict_eta"

\* The request carries a time and two zone ids in [0, 100) that differ.
WellFormed(body) ==
  /\ body.request_time # None
  /\ body.pickup_zone \in 0 .. 99
  /\ body.dropoff_zone \in 0 .. 99
  /\ body.pickup_zone # body.dropoff_zone

\* C16: POST /predict_eta calls predict only with a predictor loaded and a
\* well-formed request; a request that is not well-formed is answered 422 and
\* a well-formed one with no predictor loaded 503, both without calling
\* predict.
C16_PredictOnlyWhenValidAndLoaded ==
  PredictEtaAnswered =>
    /\ out.value.calls # <<>> => (app.predictor # None /\ WellFormed(out.arg))
    /\ ~WellFormed(out.arg) => (out.value.status_code = 422 /\ out.value.calls = <<>>)
    /\ (WellFormed(out.arg) /\ app.predictor = None)
         => (out.value.status_code = 503 /\ out.value.calls = <<>>)

\* A well-formed request has been forwarded to a loaded predictor and answered.
C16_Witness ==
  /\ PredictEtaAnswered
  /\ out.value.calls = <<"predict">>
  /\ out.value.status_code = 200
  /\ app.predictor # None

\* evaluate has returned metrics for labels of which one is zero.
EvaluatedZeroLabel ==
  /\ out.op = "evaluate"
  /\ subject \in {"baseline_model", "advanced_model"}
  /\ \E i \in DOMAIN out.y : out.y[i] = 0

\* C17: evaluate of either model, handed a label that is zero, does not
\* divide by it: it fails or reports a finite MAPE.
C17_MapeGuardsZeroLabel ==
  EvaluatedZeroLabel => (~out.ok \/ out.value.mape.kind = "finite")

\* The columns that are no features: identifier, timestamp, label, and the
\* two that leak the outcome.
NonFeatures ==
  {"trip_id", "request_datetime", "actual_duration_minutes", "driver_efficiency",
   "has_event"}

\* handed lists the columns of the transformed frame but for the non-features.
FeaturesOnly(handed, transformed) == Range(handed) = Range(transformed) \ NonFeatures

\* C18: the columns handed to the models by train (kept by the advanced model
\* as the columns it was fitted on), by predict and by evaluate_all are the
\* columns of the transformed frame without trip_id, request_datetime,
\* actual_duration_minutes, driver_efficiency and has_event.
C18_ModelsGetFeaturesOnly ==
  /\ (out.op = "train" /\ out.ok) =>
       FeaturesOnly(pred.advanced_model.feature_columns,
                    pred.feature_engineer.training_columns)
  /\ (out.op = "predict" /\ out.ok) =>
       FeaturesOnly(PredictFeatures(pred, PredictInput(zones_cfg, out.arg)).value.cols,
                    Transform(pred.feature_engineer, PredictInput(zones_cfg, out.arg)).frame.cols)
  /\ (out.op = "evaluate_all" /\ out.ok) =>
       FeaturesOnly(SelectFeatures(Transform(pred.feature_engineer, Batch(out.arg))).value.cols,
                    Transform(pred.feature_engineer, Batch(out.arg)).frame.cols)

\* predict has answered from a transformed frame that holds non-features.
C18_Witness ==
  /\ out.op = "predict" /\ out.ok
  /\ NonFeatures \cap Range(pred.feature_engineer.training_columns) # {}
  /\ NonFeatures \cap Range(pred.advanced_model.feature_columns) = {}

\* A FeatureEngineer run in which transform (alone or within fit_transform)
\* has returned a frame.
FeaturesReturned ==
  /\ subject = "feature_engineer"
  /\ out.op \in {"transform", "fit_transform"}
  /\ out.ok

\* The zone pairs of the data given to fit.
FittedPairs == DOMAIN fe.zone_pair_stats[StrKey("mean")]

\* The three pair features of a row are the fitted statistics of its pair.
PairStatsOf(x) ==
  /\ x.zone_pair_mean = fe.zone_pair_stats[StrKey("mean")][GroupKey("zone_pair", x)]
  /\ x.zone_pair_std = fe.zone_pair_stats[StrKey("std")][GroupKey("zone_pair", x)]
  /\ x.zone_pair_count = fe.zone_pair_stats[StrKey("count")][GroupKey("zone_pair", x)]

\* The three pair features of a row are the fall-back values.
PairFallback(x) ==
  /\ x.zone_pair_mean = fe.feature_stats.global_mean
  /\ x.zone_pair_std = fe.feature_stats.global_std
  /\ x.zone_pair_count = 0

\* C19: transform gives a trip whose zone pair occurred in the fitted data
\* that pair's fitted mean, std and count, and any other trip the global
\* mean, the global std and 0.
C19_PairStatsLookedUp ==
  FeaturesReturned =>
    \A i \in DOMAIN out.value.rows :
      IF GroupKey("zone_pair", out.value.rows[i]) \in FittedPairs
      THEN PairStatsOf(out.value.rows[i])
      ELSE PairFallback(out.value.rows[i])

\* C20: after fit_transform the state of the FeatureEngineer (the pair, hour,
\* day-of-week and zone-combination aggregates, the global mean and std and
\* the frozen column list) is the one a new FeatureEngineer derives from that
\* dataset alone, whatever was fitted before.
C20_RefitReplacesState ==
  (subject = "feature_engineer" /\ out.op = "fit_transform") =>
    fe = FitTransform(FeatureEngineerInit, Batch(out.arg)).fe

\* A fit has completed on the stand-alone FeatureEngineer, through fit or
\* through fit_transform.
FitCompleted == subject = "feature_engineer" /\ "feature_engineer" \in completed

\* C21: once a fit has completed the FeatureEngineer holds a column list, and
\* a transform of any batch, whatever levels it has, returns exactly that list
\* in that order.
C21_FitFreezesColumns ==
  FitCompleted =>
    /\ fe.training_columns # None
    /\ \A b \in BatchIx :
         /\ Transform(fe, Batch(b)).ok
         /\ Transform(fe, Batch(b)).frame.cols = fe.training_columns

\* C22: for every zone of the grid and every zones configuration, the type
\* the predictor gives the zone at inference (_get_zone_type) is the type the
\* generator gave it (_define_zone_types).
C22_ZoneTypesAgree ==
  (ZoneTypeReturned /\ out.arg.zone \in Zones) =>
    /\ out.value = zone_types[out.arg.zone]
    /\ out.value = GetZoneType(zones_cfg, out.arg.zone)

\* predict serves some request from predictor p.
Serves(p) == \E rq \in Requests, now \in Nows : Predict(p, zones_cfg, rq, now).ok

\* The parts of a predictor a prediction is computed from.
ServingParts(p) == <<p.feature_engineer, p.baseline_model, p.advanced_model>>

\* A train call that raised has changed a part of the predictor.
FailedTrainStep ==
  /\ out'.op = "train" /\ ~out'.ok
  /\ ServingParts(pred') # ServingParts(pred)

\* C23: a train call that fails, at whatever step, leaves a predictor that
\* serves no prediction or whose feature engineer, baseline model and advanced
\* model are all what the last completed train left, so that predict never
\* serves from parts of different runs.
C23_FailedTrainNeverServes == [][FailedTrainStep => ~Serves(pred')]_vars

\* C24: whenever the predictor's fitted flag is set, its feature engineer is
\* fitted and holds a column list, and both models are fitted.
C24_FittedMeansAllFitted ==
  pred.fitted =>
    /\ pred.feature_engineer.fitted
    /\ pred.feature_engineer.training_columns # None
    /\ pred.baseline_model.fitted
    /\ pred.advanced_model.fitted

\* predict of the stand-alone AdvancedModel has ended, a fit having completed
\* on the model before.
AdvancedPredicted ==
  subject = "advanced_model" /\ out.op = "predict" /\ "advanced_model" \in completed

\* The frame that predict call was handed.
HandedFrame ==
  IF "order" \in DOMAIN out THEN Reversed(FeaturesOf(out.arg)) ELSE FeaturesOf(out.arg)

\* The handed frame cut down to the fitted columns, in fitted order.
InFittedOrder == SelectColumns(HandedFrame, am.feature_columns)

\* predict has ended as it ends on the frame in fitted order; with a regressor
\* whose fit completed, that is with the regressor's predictions for it.
AsInFittedOrder ==
  /\ <<out.ok, out.err, out.value>>
       = << AdvancedPredict(am, InFittedOrder).ok, AdvancedPredict(am, InFittedOrder).err,
            AdvancedPredict(am, InFittedOrder).value >>
  /\ am.model # UnfittedXGB => (out.ok /\ out.value = XGBPredict(am.model, InFittedOrder))

\* predict has raised err and returned nothing.
FailedWith(err) == ~out.ok /\ out.err = err /\ out.value = None

\* C25 (as stated): AdvancedModel.predict on a frame that has every fitted
\* column, in whatever order and among whatever others, returns what it
\* returns on the frame in fitted order; on a frame that lacks a fitted column
\* it fails with SchemaMismatchError.
C25_SchemaMismatchOnMissing ==
  AdvancedPredicted =>
    IF HasColumns(HandedFrame, am.feature_columns)
    THEN AsInFittedOrder
    ELSE FailedWith("SchemaMismatchError")

\* C25 (amended): the same, the failure being Python's KeyError.
C25_KeyErrorOnMissing ==
  AdvancedPredicted =>
    IF HasColumns(HandedFrame, am.feature_columns)
    THEN AsInFittedOrder
    ELSE FailedWith("KeyError")

\* Predictions returned for a frame that came with its columns reordered and
\* with columns the model was not fitted on.
C25_Witness ==
  /\ AdvancedPredicted /\ out.ok
  /\ "order" \in DOMAIN out
  /\ HandedFrame.cols # am.feature_columns
  /\ Range(am.feature_columns) # Range(HandedFrame.cols)
  /\ am.model # UnfittedXGB

\* predict has failed on a frame lacking a fitted column.
C25_MissingWitness ==
  /\ AdvancedPredicted
  /\ ~HasColumns(HandedFrame, am.feature_columns)
  /\ ~out.ok

\* This step is a train call that completed.
TrainCompletes == out'.op = "train" /\ out'.ok

\* The same train call made with validation frame v ends with the feature
\* engineer and the baseline model this step ends with.
SameWithValidation(v) ==
  \A now \in Nows :
    LET r == Train(pred, lib, Batch(out'.arg[1]), ValFrame(v), "none", now) IN
      /\ r.ok
      /\ r.p.feature_engineer = pred'.feature_engineer
      /\ r.p.baseline_model = pred'.baseline_model

\* C26: what a completed train leaves as feature-engineer state (statistics
\* and column list) and as baseline model is what the same call leaves with any
\* other validation frame, or with none.
C26_ValidationLeavesNoTrace ==
  [][TrainCompletes => \A v \in ValChoices : SameWithValidation(v)]_vars

\* A train with a validation frame has completed, the validation frame having
\* been scored by the advanced model.
C26_Witness ==
  /\ out.op = "train" /\ out.ok
  /\ out.arg[2] # <<>>
  /\ pred.advanced_model.model.evals_result # None
  /\ pred.feature_engineer.fitted /\ pred.baseline_model.fitted

FactorsReturned == out.op = "_decompose_factors"

\* The share of the prediction the traffic adjustment is to be, in twentieths:
\* 0.2 in rush hour, else 0.15 at Friday prayer, else none.
TrafficTwentieths(trip_data) ==
  IF trip_data.is_rush_hour = 1 THEN 4
  ELSE IF "is_friday_prayer" \in DOMAIN trip_data /\ trip_data.is_friday_prayer = 1 THEN 3
  ELSE 0

\* base_time is 3 minutes per unit of distance and weather_impact is 0.
BaseAndWeather ==
  /\ out.value.base_time = 30 * out.arg.trip_data.dubai_distance
  /\ out.value.weather_impact = 0

\* C27 (as stated): traffic_adjustment is 0.2 x prediction in rush hour
\* (whatever the Friday-prayer flag), else 0.15 x prediction at Friday prayer,
\* else 0; base_time is distance x 3.0 and weather_impact is 0.
C27_TrafficIsExactShare ==
  FactorsReturned =>
    /\ out.value.traffic_adjustment * Tenth
         = TrafficTwentieths(out.arg.trip_data) * out.arg.prediction
    /\ BaseAndWeather

\* C27 (amended): the same, traffic_adjustment being that share rounded to one
\* decimal: within 0.05 minute of it.
C27_TrafficIsRoundedShare ==
  FactorsReturned =>
    /\ 2 * Abs(out.value.traffic_adjustment * Tenth
                 - TrafficTwentieths(out.arg.trip_data) * out.arg.prediction) <= Tenth
    /\ BaseAndWeather

\* The factors of a trip with both flags set, the rush-hour share of whose
\* prediction is no whole number of tenths.
C27_Witness ==
  /\ FactorsReturned
  /\ out.arg.trip_data.is_rush_hour = 1
  /\ "is_friday_prayer" \in DOMAIN out.arg.trip_data
  /\ out.arg.trip_data.is_friday_prayer = 1
  /\ (4 * out.arg.prediction) % Tenth # 0
  /\ out.value.traffic_adjustment > 0

\* transform has returned the features of a trip at some hour.
HourTransformed == out.op = "transform of an hour" /\ out.ok

\* How many of the four time-window indicators of a row are 1.
WindowsSet(x) ==
  Cardinality({ w \in {"is_morning", "is_afternoon", "is_evening", "is_night"} : x[w] = 1 })

\* No row has two indicators set; the rows at the hours of none have no
\* indicator set and every other row has one.
WindowsLeaveOut(none) ==
  \A i \in DOMAIN out.value.rows :
    /\ out.value.rows[i].hour = out.arg
    /\ WindowsSet(out.value.rows[i]) <= 1
    /\ WindowsSet(out.value.rows[i]) = (IF out.arg \in none THEN 0 ELSE 1)

\* C28 (as stated): for every hour at most one of is_morning, is_afternoon,
\* is_evening, is_night is 1; at the hours 11, 16 and 21 none is, at every
\* other hour exactly one is.
C28_WindowsSkip11And16And21 == HourTransformed => WindowsLeaveOut({11, 16, 21})

\* C28 (amended): the same with 11 the only hour at which none is.
C28_WindowsSkip11 == HourTransformed => WindowsLeaveOut({11})

\* The features of a trip at 16:00, counted as afternoon.
C28_Witness ==
  /\ HourTransformed
  /\ out.arg = 16
  /\ out.value.rows[1].is_afternoon = 1

\* This step is a call of apply_weather_events.
WeatherStep == gen.pc = "weather" /\ gen'.pc = "event"

\* after is before multiplied by a factor between 0.9 and 1.1 times impact.
ScaledBy(before, after, impact) ==
  \E factor \in Times(impact, 90) .. Times(impact, 110) : after = Times(before, factor)

\* C29: apply_weather_events returns one of the tags clear, sandstorm, rain;
\* it makes the rain draw only if the sandstorm draw did not trigger; with the
\* tag clear the duration is returned as it was, with sandstorm or rain it is
\* multiplied by a factor within [0.9, 1.1] times the impact configured for
\* that weather.
C29_WeatherAppliedInTurn ==
  [][WeatherStep =>
       /\ gen'.weather \in {"clear", "sandstorm", "rain"}
       /\ gen'.draws[2] # NotDrawn => gen'.draws[1] >= gen.cfg.weather.sandstorm_prob
       /\ gen'.weather = "clear" => gen'.duration = gen.duration
       /\ gen'.weather = "sandstorm" =>
            ScaledBy(gen.duration, gen'.duration, gen.cfg.weather.sandstorm_impact)
       /\ gen'.weather = "rain" =>
            ScaledBy(gen.duration, gen'.duration, gen.cfg.weather.rain_impact)]_vars

\* Rain has been returned, drawn after the sandstorm draw did not trigger.
C29_Witness ==
  /\ gen.pc = "event"
  /\ gen.weather = "rain"
  /\ gen.draws[1] >= gen.cfg.weather.sandstorm_prob
  /\ gen.draws[2] # NotDrawn /\ gen.draws[2] < gen.cfg.weather.rain_prob

\* generate_dataset is running in a city of several zones.
GeneratingSeveral == gen.pc # "idle" /\ gen.cfg.data.n_zones >= 2

\* generate_dataset has returned a table of as many rows as it was asked for.
GeneratedAll ==
  /\ gen.pc = "idle"
  /\ out.op = "generate_dataset" /\ out.ok
  /\ out.arg = gen.n_trips
  /\ out.value.n_rows = gen.n_trips

\* With a single zone, a step taken in the resampling loop stays in it.
SingleZoneLoops ==
  [][(gen.cfg.data.n_zones = 1 /\ gen.pc = "ensure") => gen'.pc = "ensure"]_vars

\* C30: with two zones or more (each has positive weight), the resampling
\* loop ends for every trip under fair random choice and generate_dataset(n)
\* comes to return a table of exactly n rows; with a single zone the loop,
\* once entered, is never left.
C30_GenerateTerminates ==
  /\ GeneratingSeveral ~> GeneratedAll
  /\ SingleZoneLoops

\* generate_dataset has returned all its rows, the dropoff zone of the last
\* one drawn again after it came out as the pickup zone.
C30_Witness ==
  /\ GeneratedAll
  /\ gen.n_trips = MaxTrips
  /\ gen.resampled

\* The single-zone generator in its resampling loop, a zone drawn again.
C30_LoopWitness ==
  /\ gen.cfg.data.n_zones = 1
  /\ gen.pc = "ensure"
  /\ gen.resampled

====
